---- MODULE Spec2Model ----
(***************************************************************************)
(* Ingest and lifecycle orchestrator of stream-forge: the upload routes    *)
(* (POST /uploads, /refresh-urls, /complete, /abort), GET and DELETE       *)
(* /videos, the transcode worker, the BullMQ queue and the cron job that   *)
(* aborts abandoned uploads, over one shared videos table and one          *)
(* object store, and the fan-out of the worker's status events from the   *)
(* Redis channel video:status to the socket.io rooms of the API server.   *)
(* Every await of a handler is a separate step, so that                   *)
(* handlers interleave exactly where the event loop lets them.             *)
(* The model follows one video id: every handler addresses a single row,   *)
(* a single source key and the jobs of that id, and reads nothing of any   *)
(* other video.  Sizes are counted in MiB.                                 *)
(***************************************************************************)
EXTENDS Integers, Sequences, FiniteSets, TLC

(* ---- bounds ---- *)
MaxReqs == 2
MaxParts == 3
MaxSegments == 1
(* status events the bus carries in one behaviour; later ones are lost *)
MaxEvents == 2
(* the queue bound of a slow subscriber (64 by default), scaled to MaxEvents *)
MaxBuffered == 1
(* largest declared size tried against the part arithmetic of POST /uploads *)
MaxSize == 200
(* most registered part checksums handed to one validation *)
MaxExpected == 6
(* partSize of a validated upload, in bytes *)
ValPartSize == 2
(* most parts of a validated object stored with other bytes than uploaded *)
MaxBad == 2

(* the parts of the file the uploader sends, the calls of uploadFile and
   resumeUpload that may be running at once, the AbortControllers created *)
TotalChunks == 2
MaxRuns == 2
MaxControllers == 4

(* let retries = 3 in uploadChunked *)
CHUNK_RETRIES == 3

(* calls of the segment cache whose awaits may interleave, and the readings
   of Date.now() the cache sees *)
MaxCalls == 2
MaxClock == 4

(* MAX_CACHE_SIZE_MB of cache-db.ts; segment sizes are in MB *)
MAX_CACHE_SIZE_MB == 500

(* the media segments of each quality of the manifest, the fetches of the
   MSE controller that may be in flight at once, and the fetches it starts *)
ManifestSegments == 2
MaxFetches == 2
MaxLoads == 4

(* ---- program constants (lib/constants, values of spec 6.4, in MiB) ---- *)
MULTIPART_THRESHOLD == 100
MULTIPART_CHUNK_SIZE == 50
MAX_FILE_SIZE == 10240
MAX_MULTIPART_PARTS == 10000
QUEUE_ATTEMPTS == 3
CONCURRENCY == 5
NumQualities == 3

NULL == "null"

(* MAX_MULTIPART_PARTS is a configuration key: the default, and a deployment
   whose limit lies below the parts of the largest file it accepts (here just
   below the parts of the smallest multipart upload) *)
PartsLimits == {MAX_MULTIPART_PARTS, ((MULTIPART_THRESHOLD + 1) \div MULTIPART_CHUNK_SIZE)}

VideoIds == {1}
ReqIds == 1..MaxReqs

(* declared sizes a client may send to POST /uploads *)
Sizes == {0, MULTIPART_THRESHOLD, MULTIPART_THRESHOLD + 1, MAX_FILE_SIZE + 1}
(* byte contents of a source: "A" is what the client declared, "B" is not *)
Contents == {"A", "B"}
ETags == {"", "etag"}
(* multipartUploadId of a request body: 0 is none, a video's id is the id of
   that video's upload, 2 is an id the store never issued *)
UploadIdInputs == VideoIds \cup {0, 2}
(* the sockets of two browser tabs; rooms video:<id>, 2 the id of another video *)
Sockets == {"s1", "s2"}
RoomIds == VideoIds \cup {2}

VARIABLES videos, objects, uploads, videoQueue, worker, tmpFiles, segments, reqs, enqueued,
          partChecksums, collector, maxMultipartParts, created, subscriber, io, validation, uploader, cache, mse

vars == <<videos, objects, uploads, videoQueue, worker, tmpFiles, segments, reqs, enqueued,
          partChecksums, collector, maxMultipartParts, created, subscriber, io, validation, uploader, cache, mse>>

(* ---- pure helpers ---- *)

Sha256Base64(c) == "sha256:" \o c

Ceil(a, b) == (a + b - 1) \div b

(* a part count that rounds down *)
NumPartsFloor(size) == size \div MULTIPART_CHUNK_SIZE

NumParts(size) == Ceil(size, MULTIPART_CHUNK_SIZE)

(* a selection that sends the threshold itself to multipart *)
UseMultipartInclusive(size) == size >= MULTIPART_THRESHOLD

UseMultipart(size) == size > MULTIPART_THRESHOLD

(* size of part p of an upload of the given declared size *)
PartBytes(size, p) ==
    IF p < NumParts(size) THEN MULTIPART_CHUNK_SIZE
    ELSE IF p = NumParts(size) THEN size - (NumParts(size) - 1) * MULTIPART_CHUNK_SIZE
    ELSE 0

(* bytes of the object the store assembles from the listed part numbers *)
RECURSIVE SumParts(_, _)
SumParts(size, nums) ==
    IF nums = <<>> THEN 0 ELSE PartBytes(size, Head(nums)) + SumParts(size, Tail(nums))

(* [...parts].sort((a, b) => a.PartNumber - b.PartNumber): stable insertion *)
RECURSIVE InsertPart(_, _)
InsertPart(p, s) ==
    IF s = <<>> THEN <<p>>
    ELSE IF p.PartNumber < Head(s).PartNumber THEN <<p>> \o s
    ELSE <<Head(s)>> \o InsertPart(p, Tail(s))

RECURSIVE SortParts(_)
SortParts(s) ==
    IF s = <<>> THEN <<>>
    ELSE InsertPart(s[Len(s)], SortParts(SubSeq(s, 1, Len(s) - 1)))

(* the for loop over sortedParts: the first failing check decides *)
RECURSIVE PartsCheck(_, _)
PartsCheck(sorted, i) ==
    IF i > Len(sorted) THEN "ok"
    ELSE IF sorted[i].PartNumber # i THEN "Parts must be sequential starting from 1"
    ELSE IF sorted[i].ETag = "" THEN "Missing ETag for part"
    ELSE PartsCheck(sorted, i + 1)

ValidateParts(parts) ==
    IF Len(parts) = 0 THEN "Invalid parts array"
    ELSE PartsCheck(SortParts(parts), 1)

(* ---- records ---- *)

NoVideo ==
    [status |-> "absent", sourceSize |-> 0, sourceChecksum |-> NULL,
     lastError |-> NULL, cancelledAt |-> NULL, deletedAt |-> NULL,
     manifestUrl |-> NULL, duration |-> NULL, processedAt |-> NULL,
     sourceUrl |-> NULL]

(* `s3://${storage.bucketName}/${key}`, key the source key of the new id *)
SourceUrl == "s3://bucket/sources/id"

NewVideo(size, checksum) ==
    [NoVideo EXCEPT !.status = "pending_upload", !.sourceSize = size,
                    !.sourceChecksum = checksum, !.sourceUrl = SourceUrl]

NoObject == [present |-> FALSE, size |-> 0, content |-> NULL]

(* a multipart upload in the store: parts are the part numbers uploaded, bad
   whether some part is stored with other bytes than the client hashed, old
   whether it was initiated more than 24 h ago *)
NoUpload == [state |-> "none", parts |-> {}, bad |-> FALSE, old |-> FALSE]

NoResp == [code |-> 0, error |-> "", status |-> "", currentStatus |-> "", urls |-> 0]

(* an error reply: { error, currentStatus? } *)
Resp(code, error, cur) ==
    [code |-> code, error |-> error, status |-> "", currentStatus |-> cur, urls |-> 0]

(* a 200 reply, with the status field complete returns *)
Ok(status) == [code |-> 200, error |-> "", status |-> status, currentStatus |-> "", urls |-> 0]

NoReq == [kind |-> "none", vid |-> 0, pc |-> "new", mpId |-> 0, parts |-> <<>>,
          etagsOk |-> TRUE, resp |-> NoResp]

IdleWorker == [pc |-> "idle", vid |-> 0, attemptsMade |-> 0]

(* the cron job: todo are the listed uploads still to abort, done those the
   run in progress has aborted, last how the last run that had something to
   abort ended: "ok" it returned, "error" it threw *)
IdleCollector == [pc |-> "idle", todo |-> {}, done |-> {}, last |-> "none"]

(* the last reply of POST /uploads: partUrls counts the URLs of the reply *)
NoCreated == [code |-> 0, error |-> "", type |-> "", numParts |-> 0, partUrls |-> 0]

(* the API server's Redis subscriber: up once subscribe("video:status") has
   returned, inflight the messages published and not yet handled, sent the
   number of messages the channel has carried (it numbers them), dropped the
   number of messages whose JSON.parse threw *)
NoSubscriber == [up |-> FALSE, inflight |-> <<>>, sent |-> 0, dropped |-> 0]

(* a socket.io socket: the video rooms it has joined, the packets emitted to
   it that the client has not read yet, the number of the last one it read *)
NoSocket == [connected |-> FALSE, rooms |-> {}, outbox |-> <<>>, lastSeq |-> 0]

(* one call of validateS3PartChecksums: object the bytes stored under the
   key, expected the registered parts, i the start of the batch in progress,
   inflight the entries whose ranged read has not returned, reads how often
   each entry's range was requested, results what each entry's callback
   returned, storeOk whether the store served the read; failures and valid
   are the return value *)
NoValidation ==
    [pc |-> "none", object |-> <<>>, expected |-> <<>>, i |-> 0, inflight |-> {},
     reads |-> <<>>, results |-> <<>>, storeOk |-> <<>>, failures |-> <<>>,
     valid |-> FALSE]

(* ---- the uploader of the client (components/uploader.tsx) ---- *)

RunIds == 1..MaxRuns

(* one call of uploadFile or of resumeUpload's processResume with the
   locals of its uploadChunked: the controller it captured, the session
   snapshot's uploadedChunks, the uploadedParts it started from, the keys of
   existingPartsMap *)
NoRun ==
    [kind |-> "none", pc |-> "none", ctl |-> 0, i |-> 0, retries |-> 0,
     chunks |-> {}, local |-> <<>>, existing |-> {}]

(* uploadSessionsRef.current[tempId]; hasParts = FALSE is uploadedParts null
   or undefined, type "" a session whose POST /uploads has not returned *)
NoSession ==
    [status |-> "none", type |-> "", uploadedChunks |-> {}, hasParts |-> FALSE,
     uploadedParts |-> <<>>]

(* the refs of the component for one file, the parts the store holds and
   the bodies of the POST /complete requests sent; controller = 0 is no
   entry in abortControllersRef, made the number of AbortControllers created *)
NoUploader ==
    [paused |-> FALSE, controller |-> 0, aborted |-> {}, made |-> 0,
     session |-> NoSession, runs |-> [r \in 1..MaxRuns |-> NoRun],
     stored |-> {}, completes |-> <<>>]

(* ---- the segment cache of the client (app/lib/cache-db.ts) ---- *)

SegKeys == {"k1", "k2", "k3"}
SegSizes == {200, 300}
CallIds == 1..MaxCalls

(* a row of the object store "segments" *)
NoSegment == [present |-> FALSE, size |-> 0, timestamp |-> 0]

(* one call of cacheSegment or getSegment between its awaits: segment is
   the argument of cacheSegment or the row getSegment read, bytesToRemove
   the argument of evictOldestSegments *)
NoCall == [op |-> "none", pc |-> "none", key |-> "", segment |-> NoSegment, bytesToRemove |-> 0]

NoCache ==
    [store |-> [k \in SegKeys |-> NoSegment], now |-> 1,
     calls |-> [c \in 1..MaxCalls |-> NoCall]]

(* ---- the MSE controller of the client (app/lib/mse-controller.ts) ---- *)

Qualities == {"360p", "720p"}
FetchIds == 1..MaxFetches
SegmentIndexes == 0..(ManifestSegments - 1)

(* an ArrayBuffer by what it holds: the quality whose URL was fetched and
   the index of the segment, -1 for the init segment *)
NoData == [quality |-> "", index |-> -2]

(* the fields of the controller after its constructor, with the fetches in
   flight, the buffer last handed to sourceBuffer.appendBuffer and the
   number of such calls; updating is sourceBuffer.updating *)
NoMse ==
    [initialized |-> FALSE, currentQuality |-> "360p", bufferedSegments |-> {},
     queue |-> <<>>, updating |-> FALSE, isAppending |-> FALSE,
     fetches |-> [f \in 1..MaxFetches |-> NoData],
     loads |-> 0, appends |-> 0, last |-> NoData]

Init ==
    /\ videos = [v \in VideoIds |-> NoVideo]
    /\ objects = [v \in VideoIds |-> NoObject]
    /\ uploads = [v \in VideoIds |-> NoUpload]
    /\ videoQueue = <<>>
    /\ worker = IdleWorker
    /\ tmpFiles = {}
    /\ segments = [v \in VideoIds |-> {}]
    /\ reqs = [k \in ReqIds |-> NoReq]
    /\ enqueued = [v \in VideoIds |-> 0]
    /\ partChecksums = {}
    /\ collector = IdleCollector
    /\ maxMultipartParts \in PartsLimits
    /\ created = NoCreated
    /\ subscriber = NoSubscriber
    /\ io = [s \in Sockets |-> NoSocket]
    /\ mse = NoMse
    /\ cache = NoCache
    /\ uploader = NoUploader
    /\ validation = NoValidation

(* a request id is taken when the request arrives; ids are used in order *)
CanStart(k) ==
    /\ reqs[k].pc = "new"
    /\ \A j \in ReqIds : j < k => reqs[j].pc # "new"

(* the reply: the handler's locals are gone, the response stays *)
Done(k, r) == [reqs EXCEPT ![k].pc = "done", ![k].mpId = 0, ![k].parts = <<>>,
                           ![k].etagsOk = TRUE, ![k].resp = r]

Goto(k, pc) == [reqs EXCEPT ![k].pc = pc]

(* a handler that forgets the update *)
SetStatusFailedLost(v) == videos

(* .set({ status: "failed", updatedAt }) of complete's failure paths *)
SetStatusFailed(v) == [videos EXCEPT ![v].status = "failed"]

(* ---- POST /uploads ---- *)

FreshId == CHOOSE v \in VideoIds : videos[v].status = "absent" /\
               \A u \in VideoIds : u < v => videos[u].status # "absent"

(* the multipart upload the store opens for a video's source key *)
OpenUpload(v) == [uploads EXCEPT ![v] = [NoUpload EXCEPT !.state = "active"]]

(* the upload a request opened before it was rejected: in progress in the
   store under an id and a key that no row and no client holds *)
OrphanUpload(v) == [uploads EXCEPT ![v] = [NoUpload EXCEPT !.state = "orphan"]]

(* 413 and 400 "Invalid file size" return before anything is written; the
   multipart branch opens the upload in the store first and checks the number
   of parts after; an accepted request inserts the row *)
CreateReply(size) ==
    IF size > MAX_FILE_SIZE THEN [NoCreated EXCEPT !.code = 413, !.error = "File too large"]
    ELSE IF size <= 0 THEN [NoCreated EXCEPT !.code = 400, !.error = "Invalid file size"]
    ELSE IF UseMultipart(size) /\ NumParts(size) > maxMultipartParts
      THEN [NoCreated EXCEPT !.code = 400, !.error = "File requires too many parts",
                             !.numParts = NumParts(size)]
    ELSE IF UseMultipart(size)
      THEN [NoCreated EXCEPT !.code = 200, !.type = "multipart",
                             !.numParts = NumParts(size), !.partUrls = NumParts(size)]
    ELSE [NoCreated EXCEPT !.code = 200, !.type = "single"]

CreateUpload(size, checksum) ==
    /\ \E v \in VideoIds : videos[v].status = "absent"
    /\ created' = CreateReply(size)
    /\ IF size > MAX_FILE_SIZE \/ size <= 0
       THEN UNCHANGED <<videos, uploads>>
       ELSE IF UseMultipart(size) /\ NumParts(size) > maxMultipartParts
       THEN /\ uploads' = OrphanUpload(FreshId)
            /\ UNCHANGED videos
       ELSE /\ videos' = [videos EXCEPT ![FreshId] = NewVideo(size, checksum)]
            /\ uploads' = IF UseMultipart(size) THEN OpenUpload(FreshId) ELSE uploads
    /\ UNCHANGED <<objects, videoQueue, worker, tmpFiles, segments, reqs, enqueued, partChecksums, collector, maxMultipartParts, subscriber, io, validation, uploader, cache, mse>>

(* ---- the client's PUTs against the presigned URLs ---- *)

(* single PUT: the URL binds neither the length nor the bytes of the body *)
ClientPutObject(v, size, content) ==
    /\ videos[v].status # "absent"
    /\ ~UseMultipart(videos[v].sourceSize)
    /\ size \in {videos[v].sourceSize, videos[v].sourceSize - 1}
    /\ content = "A" => size = videos[v].sourceSize
    /\ objects' = [objects EXCEPT ![v] = [present |-> TRUE, size |-> size, content |-> content]]
    /\ UNCHANGED <<videos, uploads, videoQueue, worker, tmpFiles, segments, reqs, enqueued, partChecksums, collector, maxMultipartParts, created, subscriber, io, validation, uploader, cache, mse>>

(* PUT of one part; the client hashes the chunk ("A") before sending it, and
   the store keeps whatever bytes arrive *)
ClientPutPart(v, p, content) ==
    /\ uploads[v].state = "active"
    /\ p \in 1..NumParts(videos[v].sourceSize)
    /\ p \notin uploads[v].parts
    /\ uploads' = [uploads EXCEPT ![v].parts = @ \cup {p},
                                  ![v].bad = @ \/ content # "A"]
    /\ UNCHANGED <<videos, objects, videoQueue, worker, tmpFiles, segments, reqs, enqueued, partChecksums, collector, maxMultipartParts, created, subscriber, io, validation, uploader, cache, mse>>

(* after the last part the client sends the checksums of its chunks to
   /uploads/:id/part-checksums; the server registers no such route and keeps
   nothing of them *)
ClientSendPartChecksums(v) ==
    /\ uploads[v].state = "active"
    /\ uploads[v].parts = 1..NumParts(videos[v].sourceSize)
    /\ v \notin partChecksums
    /\ partChecksums' = partChecksums \cup {v}
    /\ UNCHANGED <<videos, objects, uploads, videoQueue, worker, tmpFiles, segments, reqs, enqueued, collector, maxMultipartParts, created, subscriber, io, validation, uploader, cache, mse>>

(* ---- POST /uploads/:uploadId/complete ---- *)

PartRecs == [PartNumber : 1..MaxParts, ETag : ETags]

PartsLists == UNION {[1..n -> PartRecs] : n \in 0..MaxParts}

(* what the handler derives from a parts list: the part numbers of
   sortedParts, whether every ETag is non-empty, and the verdict of its checks *)
PartsCase(parts) ==
    LET sorted == SortParts(parts) IN
    [nums |-> [i \in 1..Len(sorted) |-> sorted[i].PartNumber],
     etagsOk |-> \A i \in 1..Len(sorted) : sorted[i].ETag # "",
     verdict |-> ValidateParts(parts)]

(* the parts lists of the input domain, through the handler's checks *)
PartsCases == {PartsCase(parts) : parts \in PartsLists}

(* the same cases as the handler tells them apart: of a rejected list only
   the verdict is used *)
PartsOutcomes ==
    {IF c.verdict = "ok" THEN c ELSE [c EXCEPT !.nums = <<>>, !.etagsOk = TRUE] : c \in PartsCases}

(* where complete goes after the multipart block *)
AfterMultipart(v) == IF videos[v].sourceChecksum # NULL THEN "c_checksum" ELSE "c_update"

(* a status test that lets a video already in processing through *)
CompleteAllowedLax(status) == status \in {"pending_upload", "processing"}

(* the status test of complete *)
CompleteAllowed(status) == status = "pending_upload"

(* select, status check and the synchronous checks of the parts list;
   mpId = 0 is a body without multipartUploadId, hasParts = FALSE one
   without parts, case the PartsCase of the parts sent *)
CompleteSelect(k, v, mpId, hasParts, case) ==
    /\ CanStart(k)
    /\ LET r == [NoReq EXCEPT !.kind = "complete", !.vid = v, !.mpId = mpId]
           st == videos[v].status
           d == [r EXCEPT !.pc = "done", !.mpId = 0]
       IN reqs' = [reqs EXCEPT ![k] =
            IF st = "absent"
              THEN [d EXCEPT !.resp = Resp(404, "Video not found", "")]
            ELSE IF ~CompleteAllowed(st)
              THEN [d EXCEPT !.resp = Resp(400, "Invalid upload state", st)]
            ELSE IF mpId # 0 /\ hasParts
              THEN IF case.verdict # "ok"
                     THEN [d EXCEPT !.resp = Resp(400, case.verdict, "")]
                     ELSE [r EXCEPT !.pc = "c_s3complete", !.parts = case.nums,
                                    !.etagsOk = case.etagsOk]
            ELSE [r EXCEPT !.pc = AfterMultipart(v)]]
    /\ UNCHANGED <<videos, objects, uploads, videoQueue, worker, tmpFiles, segments, enqueued, partChecksums, collector, maxMultipartParts, created, subscriber, io, validation, uploader, cache, mse>>

(* CompleteMultipartUpload as the store executes it: the upload must be
   open under that id, the list ascending, every listed part uploaded and
   named by its ETag *)
S3CanComplete(v, mpId, nums, etagsOk) ==
    /\ mpId = v
    /\ uploads[v].state = "active"
    /\ nums # <<>>
    /\ etagsOk
    /\ \A i \in 1..Len(nums) : nums[i] \in uploads[v].parts
    /\ \A i \in 1..(Len(nums) - 1) : nums[i] < nums[i + 1]

AssembledObject(v, nums) ==
    [present |-> TRUE,
     size |-> SumParts(videos[v].sourceSize, nums),
     content |-> IF /\ nums = [i \in 1..NumParts(videos[v].sourceSize) |-> i]
                    /\ ~uploads[v].bad
                 THEN "A" ELSE "B"]

CompleteS3(k, providerOk) ==
    /\ reqs[k].pc = "c_s3complete"
    /\ LET v == reqs[k].vid IN
       IF providerOk /\ S3CanComplete(v, reqs[k].mpId, reqs[k].parts, reqs[k].etagsOk)
       THEN /\ objects' = [objects EXCEPT ![v] = AssembledObject(v, reqs[k].parts)]
            /\ uploads' = [uploads EXCEPT ![v] = [NoUpload EXCEPT !.state = "completed"]]
            /\ reqs' = Goto(k, AfterMultipart(v))
       ELSE /\ reqs' = Goto(k, "c_s3failed")
            /\ UNCHANGED <<objects, uploads>>
    /\ UNCHANGED <<videos, videoQueue, worker, tmpFiles, segments, enqueued, partChecksums, collector, maxMultipartParts, created, subscriber, io, validation, uploader, cache, mse>>

(* catch of the multipart block: mark failed, rethrow *)
CompleteS3Failed(k) ==
    /\ reqs[k].pc = "c_s3failed"
    /\ videos' = SetStatusFailed(reqs[k].vid)
    /\ reqs' = Done(k, Resp(500, "CompleteMultipartUpload failed", ""))
    /\ UNCHANGED <<objects, uploads, videoQueue, worker, tmpFiles, segments, enqueued, partChecksums, collector, maxMultipartParts, created, subscriber, io, validation, uploader, cache, mse>>

(* validateS3FileChecksum: GetObject, SHA-256 of the body, compare *)
ChecksumValid(obj, expected) == Sha256Base64(obj.content) = expected

CompleteChecksum(k) ==
    /\ reqs[k].pc = "c_checksum"
    /\ LET v == reqs[k].vid IN
       reqs' = Goto(k, IF ~objects[v].present THEN "c_checkerror"
                       ELSE IF ChecksumValid(objects[v], videos[v].sourceChecksum)
                            THEN "c_update" ELSE "c_mismatch")
    /\ UNCHANGED <<videos, objects, uploads, videoQueue, worker, tmpFiles, segments, enqueued, partChecksums, collector, maxMultipartParts, created, subscriber, io, validation, uploader, cache, mse>>

(* !validation.valid: mark failed, 400 *)
CompleteMismatch(k) ==
    /\ reqs[k].pc = "c_mismatch"
    /\ videos' = SetStatusFailed(reqs[k].vid)
    /\ reqs' = Done(k, Resp(400, "Checksum validation failed", ""))
    /\ UNCHANGED <<objects, uploads, videoQueue, worker, tmpFiles, segments, enqueued, partChecksums, collector, maxMultipartParts, created, subscriber, io, validation, uploader, cache, mse>>

(* validation threw: mark failed, 500 *)
CompleteCheckError(k) ==
    /\ reqs[k].pc = "c_checkerror"
    /\ videos' = SetStatusFailed(reqs[k].vid)
    /\ reqs' = Done(k, Resp(500, "Checksum validation failed", ""))
    /\ UNCHANGED <<objects, uploads, videoQueue, worker, tmpFiles, segments, enqueued, partChecksums, collector, maxMultipartParts, created, subscriber, io, validation, uploader, cache, mse>>

CompleteUpdate(k) ==
    /\ reqs[k].pc = "c_update"
    /\ videos' = [videos EXCEPT ![reqs[k].vid].status = "processing"]
    /\ reqs' = Goto(k, "c_enqueue")
    /\ UNCHANGED <<objects, uploads, videoQueue, worker, tmpFiles, segments, enqueued, partChecksums, collector, maxMultipartParts, created, subscriber, io, validation, uploader, cache, mse>>

(* videoQueue.add; queueOk = FALSE is the broker refusing the job *)
CompleteEnqueue(k, queueOk) ==
    /\ reqs[k].pc = "c_enqueue"
    /\ IF queueOk
       THEN /\ videoQueue' = Append(videoQueue, [videoId |-> reqs[k].vid, attemptsMade |-> 0])
            /\ enqueued' = [enqueued EXCEPT ![reqs[k].vid] = @ + 1]
            /\ reqs' = Done(k, Ok("processing"))
       ELSE /\ reqs' = Done(k, Resp(500, "videoQueue.add failed", ""))
            /\ UNCHANGED <<videoQueue, enqueued>>
    /\ UNCHANGED <<videos, objects, uploads, worker, tmpFiles, segments, partChecksums, collector, maxMultipartParts, created, subscriber, io, validation, uploader, cache, mse>>

(* ---- POST /uploads/:uploadId/refresh-urls ---- *)

(* a status test that also refreshes for a video already completed *)
RefreshAllowedLax(status) == status \in {"pending_upload", "processing"}

(* the status test of refresh-urls *)
RefreshAllowed(status) == status = "pending_upload"

(* select and status check; the multipartUploadId of the body is not checked *)
RefreshSelect(k, v, mpId) ==
    /\ CanStart(k)
    /\ LET r == [NoReq EXCEPT !.kind = "refresh", !.vid = v]
           st == videos[v].status
       IN reqs' = [reqs EXCEPT ![k] =
            IF st = "absent"
              THEN [r EXCEPT !.pc = "done", !.resp = Resp(404, "Video not found", "")]
            ELSE IF ~RefreshAllowed(st)
              THEN [r EXCEPT !.pc = "done", !.resp = Resp(400, "Upload not in progress", st)]
            ELSE [r EXCEPT !.pc = "r_sign", !.mpId = mpId]]
    /\ UNCHANGED <<videos, objects, uploads, videoQueue, worker, tmpFiles, segments, enqueued, partChecksums, collector, maxMultipartParts, created, subscriber, io, validation, uploader, cache, mse>>

(* the reply of refresh-urls: one URL per part of the declared size *)
RefreshOk(n) == [Ok("") EXCEPT !.urls = n]

(* a refresh that opens a new multipart upload for the key *)
RefreshSignReopen(k) ==
    /\ reqs[k].pc = "r_sign"
    /\ reqs' = Done(k, RefreshOk(NumParts(videos[reqs[k].vid].sourceSize)))
    /\ uploads' = [uploads EXCEPT ![reqs[k].vid] = [NoUpload EXCEPT !.state = "active"]]
    /\ UNCHANGED <<videos, objects, videoQueue, worker, tmpFiles, segments, enqueued, partChecksums, collector, maxMultipartParts, created, subscriber, io, validation, uploader, cache, mse>>

(* the loop of getSignedUrl: signing is local, nothing is written *)
RefreshSign(k) ==
    /\ reqs[k].pc = "r_sign"
    /\ reqs' = Done(k, RefreshOk(NumParts(videos[reqs[k].vid].sourceSize)))
    /\ UNCHANGED <<videos, objects, uploads, videoQueue, worker, tmpFiles, segments, enqueued, partChecksums, collector, maxMultipartParts, created, subscriber, io, validation, uploader, cache, mse>>

(* ---- POST /uploads/:uploadId/abort ---- *)

AbortSelect(k, v, mpId) ==
    /\ CanStart(k)
    /\ LET r == [NoReq EXCEPT !.kind = "abort", !.vid = v, !.mpId = mpId]
       IN reqs' = [reqs EXCEPT ![k] =
            IF videos[v].status = "absent"
              THEN [r EXCEPT !.pc = "done", !.mpId = 0, !.resp = Resp(404, "Video not found", "")]
            ELSE IF mpId # 0 THEN [r EXCEPT !.pc = "a_s3abort"]
            ELSE [r EXCEPT !.pc = "a_update"]]
    /\ UNCHANGED <<videos, objects, uploads, videoQueue, worker, tmpFiles, segments, enqueued, partChecksums, collector, maxMultipartParts, created, subscriber, io, validation, uploader, cache, mse>>

(* AbortMultipartUpload in the store: the upload and its parts are gone *)
AbortedUpload == [NoUpload EXCEPT !.state = "aborted"]

(* storage.abortMultipartUpload inside try/catch: an error is only logged *)
AbortS3(k) ==
    /\ reqs[k].pc = "a_s3abort"
    /\ LET v == reqs[k].vid IN
       uploads' = IF reqs[k].mpId = v /\ uploads[v].state = "active"
                  THEN [uploads EXCEPT ![v] = AbortedUpload]
                  ELSE uploads
    /\ reqs' = Goto(k, "a_update")
    /\ UNCHANGED <<videos, objects, videoQueue, worker, tmpFiles, segments, enqueued, partChecksums, collector, maxMultipartParts, created, subscriber, io, validation, uploader, cache, mse>>

(* the update of abort has no condition on the current status *)
AbortSets(row) == [row EXCEPT !.status = "cancelled", !.cancelledAt = "set"]

AbortUpdate(k) ==
    /\ reqs[k].pc = "a_update"
    /\ videos' = [videos EXCEPT ![reqs[k].vid] = AbortSets(@)]
    /\ reqs' = Done(k, Ok(""))
    /\ UNCHANGED <<objects, uploads, videoQueue, worker, tmpFiles, segments, enqueued, partChecksums, collector, maxMultipartParts, created, subscriber, io, validation, uploader, cache, mse>>

(* ---- DELETE /videos/:id ---- *)

DeleteSelect(k, v) ==
    /\ CanStart(k)
    /\ LET r == [NoReq EXCEPT !.kind = "delete", !.vid = v]
       IN reqs' = [reqs EXCEPT ![k] =
            IF videos[v].status = "absent"
              THEN [r EXCEPT !.pc = "done", !.resp = Resp(404, "Video not found", "")]
            ELSE [r EXCEPT !.pc = "d_exists"]]
    /\ UNCHANGED <<videos, objects, uploads, videoQueue, worker, tmpFiles, segments, enqueued, partChecksums, collector, maxMultipartParts, created, subscriber, io, validation, uploader, cache, mse>>

(* storage.fileExists: HEAD, any error reads as "no such file" *)
DeleteExists(k, headOk) ==
    /\ reqs[k].pc = "d_exists"
    /\ reqs' = Goto(k, IF headOk /\ objects[reqs[k].vid].present THEN "d_deletefile" ELSE "d_update")
    /\ UNCHANGED <<videos, objects, uploads, videoQueue, worker, tmpFiles, segments, enqueued, partChecksums, collector, maxMultipartParts, created, subscriber, io, validation, uploader, cache, mse>>

(* storage.deleteFile is not guarded: a store error ends the request *)
DeleteFile(k, storeOk) ==
    /\ reqs[k].pc = "d_deletefile"
    /\ IF storeOk
       THEN /\ objects' = [objects EXCEPT ![reqs[k].vid] = NoObject]
            /\ reqs' = Goto(k, "d_update")
       ELSE /\ reqs' = Done(k, Resp(500, "DeleteObject failed", ""))
            /\ UNCHANGED objects
    /\ UNCHANGED <<videos, uploads, videoQueue, worker, tmpFiles, segments, enqueued, partChecksums, collector, maxMultipartParts, created, subscriber, io, validation, uploader, cache, mse>>

(* a soft delete that only sets the status *)
DeleteSetsStatusOnly(row) == [row EXCEPT !.status = "deleted"]

(* .set({ status: "deleted", deletedAt, updatedAt }) *)
DeleteSets(row) == [row EXCEPT !.status = "deleted", !.deletedAt = "set"]

DeleteUpdate(k) ==
    /\ reqs[k].pc = "d_update"
    /\ videos' = [videos EXCEPT ![reqs[k].vid] = DeleteSets(@)]
    /\ reqs' = Done(k, Ok(""))
    /\ UNCHANGED <<objects, uploads, videoQueue, worker, tmpFiles, segments, enqueued, partChecksums, collector, maxMultipartParts, created, subscriber, io, validation, uploader, cache, mse>>

(* ---- GET /videos ---- *)

(* where status <> 'deleted' and deleted_at is null *)
Listing == {v \in VideoIds : /\ videos[v].status \notin {"absent", "deleted"}
                             /\ videos[v].deletedAt = NULL}

(* ---- the transcode worker ---- *)

(* the first statement of the job: status := processing, whatever it was *)
WorkerStartSets(row) == [row EXCEPT !.status = "processing"]

(* redisPublisher.publish("video:status", { videoId, status }): Redis hands
   the message to the connections subscribed at that moment and keeps nothing
   for the others; the messages of the channel are numbered as they are sent *)
Publish(v, status) ==
    IF subscriber.up /\ subscriber.sent < MaxEvents
    THEN [subscriber EXCEPT
            !.sent = @ + 1,
            !.inflight = Append(@, [json |-> TRUE, videoId |-> v, status |-> status,
                                    seq |-> subscriber.sent + 1])]
    ELSE subscriber

(* the job becomes active: the "active" listener publishes processing *)
WorkerStart ==
    /\ worker.pc = "idle"
    /\ videoQueue # <<>>
    /\ LET job == Head(videoQueue) IN
       /\ worker' = [pc |-> "w_download", vid |-> job.videoId, attemptsMade |-> job.attemptsMade]
       /\ videos' = [videos EXCEPT ![job.videoId] = WorkerStartSets(@)]
       /\ subscriber' = Publish(job.videoId, "processing")
    /\ videoQueue' = Tail(videoQueue)
    /\ UNCHANGED <<objects, uploads, tmpFiles, segments, reqs, enqueued, partChecksums, collector, maxMultipartParts, created, io, validation, uploader, cache, mse>>

(* the source is fetched unless TMP_DIR still holds it from an earlier
   attempt; GetObject of a missing object throws into the catch *)
WorkerDownload ==
    /\ worker.pc = "w_download"
    /\ IF worker.vid \in tmpFiles \/ objects[worker.vid].present
       THEN /\ worker' = [worker EXCEPT !.pc = "w_insert"]
            /\ tmpFiles' = tmpFiles \cup {worker.vid}
       ELSE /\ worker' = [worker EXCEPT !.pc = "w_catch"]
            /\ UNCHANGED tmpFiles
    /\ UNCHANGED <<videos, objects, uploads, videoQueue, segments, reqs, enqueued, partChecksums, collector, maxMultipartParts, created, subscriber, io, validation, uploader, cache, mse>>

(* allSegments: for every quality manifest, one row per segment, idx = seg.index *)
AllSegments(nq, nseg) == [i \in 1..(nq * nseg) |-> (i - 1) % nseg]

(* the primary key (video_id, idx) rejects the whole insert *)
InsertViolatesPk(existing, rows) ==
    \/ \E i \in DOMAIN rows : rows[i] \in existing
    \/ \E i, j \in DOMAIN rows : i # j /\ rows[i] = rows[j]

(* ffmpeg over nq applicable qualities producing nseg segments each, then
   the insert of the segment rows *)
WorkerInsert(ffmpegOk, nq, nseg) ==
    /\ worker.pc = "w_insert"
    /\ LET v == worker.vid
           rows == AllSegments(nq, nseg)
       IN IF ~ffmpegOk THEN /\ worker' = [worker EXCEPT !.pc = "w_catch"]
                            /\ UNCHANGED segments
          ELSE IF Len(rows) = 0 THEN /\ worker' = [worker EXCEPT !.pc = "w_update"]
                                     /\ UNCHANGED segments
          ELSE IF InsertViolatesPk(segments[v], rows)
               THEN /\ worker' = [worker EXCEPT !.pc = "w_catch"]
                    /\ UNCHANGED segments
          ELSE /\ segments' = [segments EXCEPT ![v] = @ \cup {rows[i] : i \in DOMAIN rows}]
               /\ worker' = [worker EXCEPT !.pc = "w_update"]
    /\ UNCHANGED <<videos, objects, uploads, videoQueue, tmpFiles, reqs, enqueued, partChecksums, collector, maxMultipartParts, created, subscriber, io, validation, uploader, cache, mse>>

(* a final update that repoints the source at the manifest *)
WorkerReadySetsSource(row) ==
    [row EXCEPT !.status = "ready", !.manifestUrl = "set", !.duration = "set",
                !.sourceUrl = "s3://bucket/processed/id/manifest.json"]

WorkerReadySets(row) ==
    [row EXCEPT !.status = "ready", !.manifestUrl = "set", !.duration = "set"]

(* the final update; the job is completed and leaves the queue *)
WorkerReady ==
    /\ worker.pc = "w_update"
    /\ videos' = [videos EXCEPT ![worker.vid] = WorkerReadySets(@)]
    /\ subscriber' = Publish(worker.vid, "ready")
    /\ worker' = IdleWorker
    /\ UNCHANGED <<objects, uploads, videoQueue, tmpFiles, segments, reqs, enqueued, partChecksums, collector, maxMultipartParts, created, io, validation, uploader, cache, mse>>

WorkerCatchSets(row) == [row EXCEPT !.status = "failed", !.lastError = "set"]

(* catch: mark failed, rethrow; BullMQ retries until attempts are used up *)
WorkerCatch ==
    /\ worker.pc = "w_catch"
    /\ videos' = [videos EXCEPT ![worker.vid] = WorkerCatchSets(@)]
    /\ videoQueue' = IF worker.attemptsMade + 1 < QUEUE_ATTEMPTS
                     THEN Append(videoQueue, [videoId |-> worker.vid,
                                              attemptsMade |-> worker.attemptsMade + 1])
                     ELSE videoQueue
    /\ subscriber' = Publish(worker.vid, "failed")
    /\ worker' = IdleWorker
    /\ UNCHANGED <<objects, uploads, tmpFiles, segments, reqs, enqueued, partChecksums, collector, maxMultipartParts, created, io, validation, uploader, cache, mse>>

(* ---- the abandoned-upload cron job ---- *)

(* 24 h pass for an upload still in progress (a run of the job is short
   against that) *)
Tick(v) ==
    /\ collector.pc = "idle"
    /\ uploads[v].state \in {"active", "orphan"} /\ ~uploads[v].old
    /\ uploads' = [uploads EXCEPT ![v].old = TRUE]
    /\ UNCHANGED <<videos, objects, videoQueue, worker, tmpFiles, segments, reqs, enqueued, partChecksums, collector, maxMultipartParts, created, subscriber, io, validation, uploader, cache, mse>>

(* ListMultipartUploads: the uploads in progress *)
ListedUploads == {v \in VideoIds : uploads[v].state \in {"active", "orphan"}}

(* upload.Initiated < cutoffTime *)
Abandoned(listed) == {v \in listed : uploads[v].old}

(* the listing; without an abandoned upload the loop awaits nothing and the
   run returns { aborted: 0 } (as a listing that throws, it leaves everything
   as it is) *)
CollectorList ==
    /\ collector.pc = "idle"
    /\ collector' =
         IF Abandoned(ListedUploads) = {} THEN collector
         ELSE [collector EXCEPT !.pc = "g_abort", !.todo = Abandoned(ListedUploads)]
    /\ UNCHANGED <<videos, objects, uploads, videoQueue, worker, tmpFiles, segments, reqs, enqueued, partChecksums, maxMultipartParts, created, subscriber, io, validation, uploader, cache, mse>>

NextTodo == CHOOSE v \in collector.todo : \A u \in collector.todo : v <= u

(* a job that counts the upload without aborting it *)
CollectorAbortSkips(abortOk) ==
    /\ collector.pc = "g_abort"
    /\ collector' = [collector EXCEPT !.pc = "idle", !.todo = {}, !.done = {},
                                      !.last = "ok"]
    /\ UNCHANGED <<videos, objects, uploads, videoQueue, worker, tmpFiles, segments, reqs, enqueued, partChecksums, maxMultipartParts, created, subscriber, io, validation, uploader, cache, mse>>

(* one pass of the loop: abortMultipartUpload, abortedCount++; an abort that
   throws ends the run with the rest untouched; after the last upload the run
   returns.  No table of the database is read or written. *)
CollectorAbort(abortOk) ==
    /\ collector.pc = "g_abort"
    /\ LET v == NextTodo
           rest == collector.todo \ {v}
       IN IF abortOk
          THEN /\ uploads' = IF v \in ListedUploads
                             THEN [uploads EXCEPT ![v] = AbortedUpload] ELSE uploads
               /\ collector' = [collector EXCEPT
                                  !.pc = IF rest = {} THEN "idle" ELSE "g_abort",
                                  !.todo = rest,
                                  !.done = IF rest = {} THEN {} ELSE @ \cup {v},
                                  !.last = IF rest = {} THEN "ok" ELSE @]
          ELSE /\ collector' = [collector EXCEPT !.pc = "idle", !.todo = {}, !.done = {},
                                                 !.last = "error"]
               /\ UNCHANGED uploads
    /\ UNCHANGED <<videos, objects, videoQueue, worker, tmpFiles, segments, reqs, enqueued, partChecksums, maxMultipartParts, created, subscriber, io, validation, uploader, cache, mse>>

(* ---- the status fan-out: Redis channel video:status to socket.io rooms ---- *)

(* start(): the duplicate connection has subscribed to the channel *)
ServerSubscribe ==
    /\ ~subscriber.up
    /\ subscriber' = [subscriber EXCEPT !.up = TRUE]
    /\ UNCHANGED <<videos, objects, uploads, videoQueue, worker, tmpFiles, segments, reqs, enqueued, partChecksums, collector, maxMultipartParts, created, io, validation, uploader, cache, mse>>

(* io.on("connection") *)
SocketConnect(s) ==
    /\ ~io[s].connected
    /\ io' = [io EXCEPT ![s].connected = TRUE]
    /\ UNCHANGED <<videos, objects, uploads, videoQueue, worker, tmpFiles, segments, reqs, enqueued, partChecksums, collector, maxMultipartParts, created, subscriber, validation, uploader, cache, mse>>

(* socket.on("subscribe:video"): socket.join(`video:${videoId}`) *)
SubscribeVideo(s, v) ==
    /\ io[s].connected
    /\ v \notin io[s].rooms
    /\ io' = [io EXCEPT ![s].rooms = @ \cup {v}]
    /\ UNCHANGED <<videos, objects, uploads, videoQueue, worker, tmpFiles, segments, reqs, enqueued, partChecksums, collector, maxMultipartParts, created, subscriber, validation, uploader, cache, mse>>

(* socket.on("unsubscribe:video"): socket.leave(`video:${videoId}`) *)
UnsubscribeVideo(s, v) ==
    /\ io[s].connected
    /\ v \in io[s].rooms
    /\ io' = [io EXCEPT ![s].rooms = @ \ {v}]
    /\ UNCHANGED <<videos, objects, uploads, videoQueue, worker, tmpFiles, segments, reqs, enqueued, partChecksums, collector, maxMultipartParts, created, subscriber, validation, uploader, cache, mse>>

(* the socket closes: socket.io takes it out of every room and drops what it
   had not sent; the handler itself only logs *)
SocketDisconnect(s) ==
    /\ io[s].connected
    /\ io' = [io EXCEPT ![s] = [NoSocket EXCEPT !.lastSeq = io[s].lastSeq]]
    /\ UNCHANGED <<videos, objects, uploads, videoQueue, worker, tmpFiles, segments, reqs, enqueued, partChecksums, collector, maxMultipartParts, created, subscriber, validation, uploader, cache, mse>>

(* an emit that reaches every connected socket *)
EmitToAll(e) ==
    [s \in Sockets |->
        IF io[s].connected THEN [io[s] EXCEPT !.outbox = Append(@, e)] ELSE io[s]]

(* io.to(`video:${event.videoId}`).emit("video:status", event): the packet is
   queued, behind those already queued, on every socket of the room *)
EmitTo(e) ==
    [s \in Sockets |->
        IF e.videoId \in io[s].rooms THEN [io[s] EXCEPT !.outbox = Append(@, e)]
        ELSE io[s]]

(* some other client of the Redis instance publishes text that is not JSON
   on the channel *)
PublishMalformed ==
    /\ subscriber.up
    /\ subscriber.sent < MaxEvents
    /\ subscriber' = [subscriber EXCEPT
          !.sent = @ + 1,
          !.inflight = Append(@, [json |-> FALSE, videoId |-> 0, status |-> "",
                                  seq |-> subscriber.sent + 1])]
    /\ UNCHANGED <<videos, objects, uploads, videoQueue, worker, tmpFiles, segments, reqs, enqueued, partChecksums, collector, maxMultipartParts, created, io, validation, uploader, cache, mse>>

(* a handler whose parse error closes the subscription *)
OnMessageFatal ==
    /\ subscriber.inflight # <<>>
    /\ LET msg == Head(subscriber.inflight)
       IN /\ io' = IF msg.json THEN EmitTo(msg) ELSE io
          /\ subscriber' = IF msg.json THEN [subscriber EXCEPT !.inflight = Tail(@)]
                           ELSE [subscriber EXCEPT !.inflight = <<>>, !.up = FALSE,
                                                   !.dropped = @ + 1]
    /\ UNCHANGED <<videos, objects, uploads, videoQueue, worker, tmpFiles, segments, reqs, enqueued, partChecksums, collector, maxMultipartParts, created, validation, uploader, cache, mse>>

(* subscriber.on("message"): the oldest message in flight is handled; a
   message JSON.parse rejects is logged in the catch and nothing is emitted *)
OnMessage ==
    /\ subscriber.inflight # <<>>
    /\ LET msg == Head(subscriber.inflight)
       IN /\ io' = IF msg.json THEN EmitTo(msg) ELSE io
          /\ subscriber' = [subscriber EXCEPT !.inflight = Tail(@),
                                              !.dropped = IF msg.json THEN @ ELSE @ + 1]
    /\ UNCHANGED <<videos, objects, uploads, videoQueue, worker, tmpFiles, segments, reqs, enqueued, partChecksums, collector, maxMultipartParts, created, validation, uploader, cache, mse>>

(* a client that reads its packets newest first *)
ClientReadNewest(s) ==
    /\ io[s].outbox # <<>>
    /\ io' = [io EXCEPT ![s].lastSeq = io[s].outbox[Len(io[s].outbox)].seq,
                        ![s].outbox = SubSeq(@, 1, Len(@) - 1)]
    /\ UNCHANGED <<videos, objects, uploads, videoQueue, worker, tmpFiles, segments, reqs, enqueued, partChecksums, collector, maxMultipartParts, created, subscriber, validation, uploader, cache, mse>>

(* the socket's transport delivers its oldest queued packet to the client *)
ClientRead(s) ==
    /\ io[s].outbox # <<>>
    /\ io' = [io EXCEPT ![s].lastSeq = Head(io[s].outbox).seq,
                        ![s].outbox = Tail(@)]
    /\ UNCHANGED <<videos, objects, uploads, videoQueue, worker, tmpFiles, segments, reqs, enqueued, partChecksums, collector, maxMultipartParts, created, subscriber, validation, uploader, cache, mse>>

(* ---- validateS3PartChecksums ---- *)

(* crypto.createHash("sha256").update(bytes).digest("base64") *)
Sha256Bytes(bytes) == [alg |-> "sha256", of |-> bytes]

(* range_get(key, start, end_inclusive): the bytes start..end of the object,
   an error when the range leaves the object *)
RangeInBounds(obj, startByte, endByte) ==
    startByte >= 0 /\ startByte <= endByte /\ endByte < Len(obj)

DownloadPartialFile(obj, startByte, endByte) == SubSeq(obj, startByte + 1, endByte + 1)

(* startByte = (partNumber - 1) * partSize; endByte = startByte + size - 1 *)
StartByte(part) == (part.partNumber - 1) * ValPartSize

(* a range that runs one byte too far *)
EndByteInclusiveOff(part) == (part.partNumber - 1) * ValPartSize + part.size

EndByte(part) == StartByte(part) + part.size - 1

(* the callback of one part: { success, partNumber, error? } *)
ValidatePart(obj, part, storeOk) ==
    IF ~storeOk \/ ~RangeInBounds(obj, StartByte(part), EndByte(part))
      THEN [success |-> FALSE, partNumber |-> part.partNumber, error |-> "read failed"]
    ELSE IF Sha256Bytes(DownloadPartialFile(obj, StartByte(part), EndByte(part))) # part.checksum
      THEN [success |-> FALSE, partNumber |-> part.partNumber, error |-> "Checksum mismatch"]
    ELSE [success |-> TRUE, partNumber |-> part.partNumber, error |-> ""]

(* a batch that also takes the entry after its last *)
BatchOverlapping(i, n) == {j \in 1..n : i < j /\ j <= i + CONCURRENCY + 1}

(* expectedParts.slice(i, i + CONCURRENCY), as positions 1..n of the list *)
Batch(i, n) == {j \in 1..n : i < j /\ j <= i + CONCURRENCY}

(* results.forEach: the failures of the batch, in the order of the list *)
RECURSIVE BatchFailures(_, _, _)
BatchFailures(results, j, last) ==
    IF j > last THEN <<>>
    ELSE (IF results[j].success THEN <<>> ELSE <<results[j].partNumber>>)
         \o BatchFailures(results, j + 1, last)

(* batch.map(async ...) starts the read of every entry of the batch before
   the first of them is awaited *)
Launch(val, i) ==
    LET n == Len(val.expected)
        b == Batch(i, n)
    IN [val EXCEPT !.pc = "batch", !.i = i, !.inflight = b,
                   !.reads = [j \in 1..n |-> IF j \in b THEN val.reads[j] + 1 ELSE val.reads[j]]]

Returned(val) == [val EXCEPT !.pc = "done", !.valid = Len(val.failures) = 0]

(* the call: with no expected part the loop body never runs *)
ValidateCall ==
    /\ validation.pc = "called"
    /\ validation' = IF Len(validation.expected) = 0 THEN Returned(validation)
                     ELSE Launch(validation, 0)
    /\ UNCHANGED <<videos, objects, uploads, videoQueue, worker, tmpFiles, segments, reqs, enqueued, partChecksums, collector, maxMultipartParts, created, subscriber, io, uploader, cache, mse>>

(* one ranged read of the batch returns or throws; the callback hashes and
   compares *)
ReadReturns(j, storeOk) ==
    /\ validation.pc = "batch"
    /\ j \in validation.inflight
    /\ validation' = [validation EXCEPT
          !.inflight = @ \ {j},
          !.storeOk[j] = storeOk,
          !.results[j] = ValidatePart(validation.object, validation.expected[j], storeOk)]
    /\ UNCHANGED <<videos, objects, uploads, videoQueue, worker, tmpFiles, segments, reqs, enqueued, partChecksums, collector, maxMultipartParts, created, subscriber, io, uploader, cache, mse>>

(* Promise.allSettled resolves: the failures are collected and the loop goes
   to the next batch, or the function returns *)
BatchSettled ==
    /\ validation.pc = "batch"
    /\ validation.inflight = {}
    /\ LET n == Len(validation.expected)
           last == IF validation.i + CONCURRENCY < n THEN validation.i + CONCURRENCY ELSE n
           val == [validation EXCEPT
                     !.failures = @ \o BatchFailures(validation.results, validation.i + 1, last)]
       IN validation' = IF validation.i + CONCURRENCY < n
                        THEN Launch(val, validation.i + CONCURRENCY)
                        ELSE Returned(val)
    /\ UNCHANGED <<videos, objects, uploads, videoQueue, worker, tmpFiles, segments, reqs, enqueued, partChecksums, collector, maxMultipartParts, created, subscriber, io, uploader, cache, mse>>

(* ---- specification ---- *)

Checksums == {NULL, Sha256Base64("A")}

Next ==
    \/ \E size \in Sizes, c \in Checksums : CreateUpload(size, c)
    \/ \E v \in VideoIds, c \in Contents :
         \E size \in {videos[v].sourceSize, videos[v].sourceSize - 1} : ClientPutObject(v, size, c)
    \/ \E v \in VideoIds, p \in 1..MaxParts, c \in Contents : ClientPutPart(v, p, c)
    \/ \E v \in VideoIds : ClientSendPartChecksums(v)
    \/ \E k \in ReqIds : CanStart(k) /\
         \E v \in VideoIds, mpId \in UploadIdInputs, hasParts \in BOOLEAN :
           \E case \in (IF hasParts THEN PartsOutcomes ELSE {PartsCase(<<>>)}) :
              CompleteSelect(k, v, mpId, hasParts, case)
    \/ \E k \in ReqIds, ok \in BOOLEAN : CompleteS3(k, ok)
    \/ \E k \in ReqIds : CompleteS3Failed(k)
    \/ \E k \in ReqIds : CompleteChecksum(k)
    \/ \E k \in ReqIds : CompleteMismatch(k)
    \/ \E k \in ReqIds : CompleteCheckError(k)
    \/ \E k \in ReqIds : CompleteUpdate(k)
    \/ \E k \in ReqIds, ok \in BOOLEAN : CompleteEnqueue(k, ok)
    \/ \E k \in ReqIds : CanStart(k) /\
         \E v \in VideoIds, mpId \in UploadIdInputs : RefreshSelect(k, v, mpId)
    \/ \E k \in ReqIds : RefreshSign(k)
    \/ \E k \in ReqIds : CanStart(k) /\
         \E v \in VideoIds, mpId \in UploadIdInputs : AbortSelect(k, v, mpId)
    \/ \E k \in ReqIds : AbortS3(k)
    \/ \E k \in ReqIds : AbortUpdate(k)
    \/ \E k \in ReqIds : CanStart(k) /\ \E v \in VideoIds : DeleteSelect(k, v)
    \/ \E k \in ReqIds, ok \in BOOLEAN : DeleteExists(k, ok)
    \/ \E k \in ReqIds, ok \in BOOLEAN : DeleteFile(k, ok)
    \/ \E k \in ReqIds : DeleteUpdate(k)
    \/ WorkerStart
    \/ WorkerDownload
    \/ \E ok \in BOOLEAN, nq \in 1..NumQualities, nseg \in 0..MaxSegments : WorkerInsert(ok, nq, nseg)
    \/ WorkerReady
    \/ WorkerCatch
    \/ \E v \in VideoIds : Tick(v)
    \/ CollectorList
    \/ \E ok \in BOOLEAN : CollectorAbort(ok)

Spec == Init /\ [][Next]_vars

(* the same handlers with one request at a time: a request arrives, and a run
   of the cron job starts, only when every earlier request has been answered
   and no run is in progress; the clock is read between them (the worker
   and the client's PUTs still interleave) *)
NoneInFlight ==
    /\ \A j \in ReqIds : reqs[j].pc \in {"new", "done"}
    /\ collector.pc = "idle"

NextSeq ==
    \/ \E size \in Sizes, c \in Checksums : CreateUpload(size, c)
    \/ \E v \in VideoIds, c \in Contents :
         \E size \in {videos[v].sourceSize, videos[v].sourceSize - 1} : ClientPutObject(v, size, c)
    \/ \E v \in VideoIds, p \in 1..MaxParts, c \in Contents : ClientPutPart(v, p, c)
    \/ \E v \in VideoIds : ClientSendPartChecksums(v)
    \/ \E k \in ReqIds : CanStart(k) /\ NoneInFlight /\
         \E v \in VideoIds, mpId \in UploadIdInputs, hasParts \in BOOLEAN :
           \E case \in (IF hasParts THEN PartsOutcomes ELSE {PartsCase(<<>>)}) :
              CompleteSelect(k, v, mpId, hasParts, case)
    \/ \E k \in ReqIds, ok \in BOOLEAN : CompleteS3(k, ok)
    \/ \E k \in ReqIds : CompleteS3Failed(k)
    \/ \E k \in ReqIds : CompleteChecksum(k)
    \/ \E k \in ReqIds : CompleteMismatch(k)
    \/ \E k \in ReqIds : CompleteCheckError(k)
    \/ \E k \in ReqIds : CompleteUpdate(k)
    \/ \E k \in ReqIds, ok \in BOOLEAN : CompleteEnqueue(k, ok)
    \/ \E k \in ReqIds : CanStart(k) /\ NoneInFlight /\
         \E v \in VideoIds, mpId \in UploadIdInputs : RefreshSelect(k, v, mpId)
    \/ \E k \in ReqIds : RefreshSign(k)
    \/ \E k \in ReqIds : CanStart(k) /\ NoneInFlight /\
         \E v \in VideoIds, mpId \in UploadIdInputs : AbortSelect(k, v, mpId)
    \/ \E k \in ReqIds : AbortS3(k)
    \/ \E k \in ReqIds : AbortUpdate(k)
    \/ \E k \in ReqIds : CanStart(k) /\ NoneInFlight /\ \E v \in VideoIds : DeleteSelect(k, v)
    \/ \E k \in ReqIds, ok \in BOOLEAN : DeleteExists(k, ok)
    \/ \E k \in ReqIds, ok \in BOOLEAN : DeleteFile(k, ok)
    \/ \E k \in ReqIds : DeleteUpdate(k)
    \/ WorkerStart
    \/ WorkerDownload
    \/ \E ok \in BOOLEAN, nq \in 1..NumQualities, nseg \in 0..MaxSegments : WorkerInsert(ok, nq, nseg)
    \/ WorkerReady
    \/ WorkerCatch
    \/ NoneInFlight /\ \E v \in VideoIds : Tick(v)
    \/ NoneInFlight /\ CollectorList
    \/ \E ok \in BOOLEAN : CollectorAbort(ok)

(* the deployment with the default limits *)
InitDefault == Init /\ maxMultipartParts = MAX_MULTIPART_PARTS

SpecSeq == InitDefault /\ [][NextSeq]_vars

(* the status fan-out with what feeds it: one single-PUT upload is created,
   completed and transcoded (with its retries) while the API server
   subscribes to the channel and sockets come, join rooms, read and go *)
NextBus ==
    \/ CreateUpload(MULTIPART_THRESHOLD, NULL)
    \/ \E v \in VideoIds : ~objects[v].present /\ ClientPutObject(v, videos[v].sourceSize, "A")
    \/ \E k \in ReqIds : CanStart(k) /\ NoneInFlight /\
         \E v \in VideoIds : videos[v].status = "pending_upload" /\
                              CompleteSelect(k, v, 0, FALSE, PartsCase(<<>>))
    \/ \E k \in ReqIds : CompleteUpdate(k)
    \/ \E k \in ReqIds : CompleteEnqueue(k, TRUE)
    \/ WorkerStart
    \/ WorkerDownload
    \/ \E ok \in BOOLEAN : WorkerInsert(ok, 1, MaxSegments)
    \/ WorkerReady
    \/ WorkerCatch
    \/ ServerSubscribe
    \/ PublishMalformed
    \/ \E s \in Sockets : SocketConnect(s)
    \/ \E s \in Sockets, v \in RoomIds : SubscribeVideo(s, v)
    \/ \E s \in Sockets, v \in RoomIds : UnsubscribeVideo(s, v)
    \/ \E s \in Sockets : SocketDisconnect(s)
    \/ OnMessage
    \/ \E s \in Sockets : ClientRead(s)

SpecBus == InitDefault /\ [][NextBus]_vars

(* POST /uploads and refresh-urls alone, over every declared size up to
   MaxSize, with the default parts limit, one below the parts of the smallest
   multipart upload, and one equal to them *)
CreateSizes == (0..MaxSize) \cup {MAX_FILE_SIZE + 1}

CreateLimits == PartsLimits \cup {NumParts(MULTIPART_THRESHOLD + 1)}

InitCreate ==
    /\ videos = [v \in VideoIds |-> NoVideo]
    /\ objects = [v \in VideoIds |-> NoObject]
    /\ uploads = [v \in VideoIds |-> NoUpload]
    /\ videoQueue = <<>>
    /\ worker = IdleWorker
    /\ tmpFiles = {}
    /\ segments = [v \in VideoIds |-> {}]
    /\ reqs = [k \in ReqIds |-> NoReq]
    /\ enqueued = [v \in VideoIds |-> 0]
    /\ partChecksums = {}
    /\ collector = IdleCollector
    /\ maxMultipartParts \in CreateLimits
    /\ created = NoCreated
    /\ subscriber = NoSubscriber
    /\ io = [s \in Sockets |-> NoSocket]
    /\ mse = NoMse
    /\ cache = NoCache
    /\ uploader = NoUploader
    /\ validation = NoValidation

NextCreate ==
    \/ \E size \in CreateSizes, c \in Checksums : CreateUpload(size, c)
    \/ \E k \in ReqIds : CanStart(k) /\ NoneInFlight /\
         \E v \in VideoIds, mpId \in UploadIdInputs : RefreshSelect(k, v, mpId)
    \/ \E k \in ReqIds : RefreshSign(k)

SpecCreate == InitCreate /\ [][NextCreate]_vars

(* progress of one single-PUT upload from complete to the end of its job:
   a handler that has started runs to its reply, and the worker takes the
   jobs of the queue and finishes every attempt it starts *)
HandlerStep ==
    \E k \in ReqIds :
        \/ CompleteChecksum(k)
        \/ CompleteMismatch(k)
        \/ CompleteCheckError(k)
        \/ CompleteUpdate(k)
        \/ \E ok \in BOOLEAN : CompleteEnqueue(k, ok)

WorkerStep ==
    \/ WorkerStart
    \/ WorkerDownload
    \/ \E ok \in BOOLEAN, nq \in 1..NumQualities, nseg \in 0..MaxSegments : WorkerInsert(ok, nq, nseg)
    \/ WorkerReady
    \/ WorkerCatch

NextLive ==
    \/ \E c \in Checksums : CreateUpload(MULTIPART_THRESHOLD, c)
    \/ \E v \in VideoIds, c \in Contents : ClientPutObject(v, videos[v].sourceSize, c)
    \/ \E k \in ReqIds : CanStart(k) /\ NoneInFlight /\
         \E v \in VideoIds : CompleteSelect(k, v, 0, FALSE, PartsCase(<<>>))
    \/ HandlerStep
    \/ WorkerStep

SpecLive ==
    /\ InitDefault
    /\ [][NextLive]_vars
    /\ WF_vars(HandlerStep)
    /\ WF_vars(WorkerStep)

(* validateS3PartChecksums alone, over the objects and the registered parts
   of uploads of up to MaxExpected parts: byte k of the client's file is k,
   a part in bad is stored as zeros, and the object may lack its last byte *)
UploadBytes(n, lastSize) == (n - 1) * ValPartSize + lastSize

StoredObject(n, lastSize, bad, short) ==
    [k \in 1..(UploadBytes(n, lastSize) - (IF short THEN 1 ELSE 0)) |->
        IF ((k - 1) \div ValPartSize) + 1 \in bad THEN 0 ELSE k]

(* the registered tuple of part pn: the client's own bytes of the part hashed *)
RegisteredPart(pn, n, lastSize) ==
    LET size == IF pn = n THEN lastSize ELSE ValPartSize
    IN [partNumber |-> pn, size |-> size,
        checksum |-> Sha256Bytes([k \in 1..size |-> (pn - 1) * ValPartSize + k])]

ExpectedParts(n, lastSize, rev) ==
    [j \in 1..n |-> RegisteredPart(IF rev THEN n + 1 - j ELSE j, n, lastSize)]

NoResult == [success |-> FALSE, partNumber |-> 0, error |-> "pending"]

InitValidate ==
    /\ videos = [v \in VideoIds |-> NoVideo]
    /\ objects = [v \in VideoIds |-> NoObject]
    /\ uploads = [v \in VideoIds |-> NoUpload]
    /\ videoQueue = <<>>
    /\ worker = IdleWorker
    /\ tmpFiles = {}
    /\ segments = [v \in VideoIds |-> {}]
    /\ reqs = [k \in ReqIds |-> NoReq]
    /\ enqueued = [v \in VideoIds |-> 0]
    /\ partChecksums = {}
    /\ collector = IdleCollector
    /\ maxMultipartParts = MAX_MULTIPART_PARTS
    /\ created = NoCreated
    /\ subscriber = NoSubscriber
    /\ io = [s \in Sockets |-> NoSocket]
    /\ mse = NoMse
    /\ cache = NoCache
    /\ uploader = NoUploader
    /\ \E n \in 0..MaxExpected, lastSize \in {1, ValPartSize}, short \in BOOLEAN, rev \in BOOLEAN :
         \E bad \in {b \in SUBSET (1..n) : Cardinality(b) <= MaxBad} :
           validation = [NoValidation EXCEPT
              !.pc = "called",
              !.object = IF n = 0 THEN <<>> ELSE StoredObject(n, lastSize, bad, short),
              !.expected = ExpectedParts(n, lastSize, rev),
              !.reads = [j \in 1..n |-> 0],
              !.results = [j \in 1..n |-> NoResult],
              !.storeOk = [j \in 1..n |-> TRUE]]

NextValidate ==
    \/ ValidateCall
    \/ \E j \in 1..MaxExpected, ok \in BOOLEAN : ReadReturns(j, ok)
    \/ BatchSettled

SpecValidate == InitValidate /\ [][NextValidate]_vars

(* ---- the uploader of the client (components/uploader.tsx) ---- *)

(* Array.from(existingPartsMap.values()).sort by PartNumber *)
SortedParts(S) ==
    CHOOSE seq \in [1..Cardinality(S) -> S] :
        \A a, b \in 1..Cardinality(S) : a < b => seq[a] < seq[b]

SeqRange(seq) == {seq[j] : j \in 1..Len(seq)}

(* the session of uploadFile before POST /uploads returns *)
InitialSession == [NoSession EXCEPT !.status = "uploading"]

RunGone(u, r) == [u EXCEPT !.runs[r] = NoRun]

(* an error leaves uploadFile or processResume: both set the status error;
   the finally of uploadFile deletes the entry of abortControllersRef *)
ErrorEnd(u, r) ==
    [RunGone(u, r) EXCEPT
        !.session.status = "error",
        !.controller = IF u.runs[r].kind = "upload" THEN 0 ELSE @]

(* an AbortError leaves them: uploadFile returns without touching the
   session and runs its finally; processResume has one catch for every error *)
AbortEnd(u, r) ==
    IF u.runs[r].kind = "upload"
    THEN [RunGone(u, r) EXCEPT !.controller = 0]
    ELSE ErrorEnd(u, r)

(* the body of POST /complete is built from the session of that moment *)
CompleteBody(session) ==
    IF session.type = "multipart" /\ session.hasParts
    THEN [multipart |-> TRUE, parts |-> session.uploadedParts]
    ELSE [multipart |-> FALSE, parts |-> <<>>]

SendComplete(u, r) ==
    [u EXCEPT !.completes = Append(@, CompleteBody(u.session)),
              !.runs[r].pc = "complete"]

(* uploadChunked has returned ret: a non-empty list is first sent to
   part-checksums, then POST /complete follows *)
AfterChunked(u, r, ret) ==
    IF ret # <<>> THEN [u EXCEPT !.runs[r].pc = "patch"] ELSE SendComplete(u, r)

(* the for loop of uploadChunked from index i up to its next await *)
RECURSIVE LoopFrom(_, _, _)
LoopFrom(u, r, i) ==
    LET run == u.runs[r] IN
    IF i = TotalChunks
    THEN LET finalParts == SortedParts(run.existing)
         IN AfterChunked([u EXCEPT !.session.hasParts = TRUE,
                                   !.session.uploadedParts = finalParts],
                         r, finalParts)
    ELSE IF u.paused THEN AfterChunked(u, r, run.local)
    ELSE IF i \in run.chunks THEN LoopFrom(u, r, i + 1)
    ELSE [u EXCEPT !.runs[r].pc = "prep", !.runs[r].i = i]

(* the entry of uploadChunked *)
StartChunked(u, r) ==
    IF u.controller = 0
    THEN ErrorEnd(u, r)
    ELSE LET uploadedParts == IF u.session.hasParts THEN u.session.uploadedParts ELSE <<>>
         IN LoopFrom([u EXCEPT !.runs[r].ctl = u.controller,
                               !.runs[r].chunks = u.session.uploadedChunks,
                               !.runs[r].local = uploadedParts,
                               !.runs[r].existing = SeqRange(uploadedParts)],
                     r, 0)

(* a file is selected: uploadFile up to its POST /uploads *)
UploadFile(r) ==
    /\ uploader.session.status = "none"
    /\ uploader.runs[r] = NoRun
    /\ uploader' = [uploader EXCEPT
          !.controller = uploader.made + 1,
          !.made = @ + 1,
          !.session = InitialSession,
          !.runs[r] = [NoRun EXCEPT !.kind = "upload", !.pc = "init"]]
    /\ UNCHANGED <<videos, objects, uploads, videoQueue, worker, tmpFiles, segments, reqs, enqueued, partChecksums, collector, maxMultipartParts, created, subscriber, io, validation, cache, mse>>

(* POST /uploads returns a multipart upload (ok) or fails *)
InitReturns(r, ok) ==
    /\ uploader.runs[r].pc = "init"
    /\ uploader' =
          IF ok
          THEN StartChunked([uploader EXCEPT !.session.type = "multipart",
                                             !.session.hasParts = FALSE,
                                             !.session.uploadedParts = <<>>], r)
          ELSE ErrorEnd(uploader, r)
    /\ UNCHANGED <<videos, objects, uploads, videoQueue, worker, tmpFiles, segments, reqs, enqueued, partChecksums, collector, maxMultipartParts, created, subscriber, io, validation, cache, mse>>

(* fetch PUT with the signal of the controller the call captured: a signal
   already aborted rejects the fetch with AbortError at once *)
FetchPut(u, r) ==
    IF u.runs[r].ctl \in u.aborted THEN AbortEnd(u, r)
    ELSE [u EXCEPT !.runs[r].pc = "put"]

(* chunk.arrayBuffer() and the hash are done: retries = 3 and the first fetch *)
ChunkHashed(r) ==
    /\ uploader.runs[r].pc = "prep"
    /\ uploader' = FetchPut([uploader EXCEPT !.runs[r].retries = CHUNK_RETRIES], r)
    /\ UNCHANGED <<videos, objects, uploads, videoQueue, worker, tmpFiles, segments, reqs, enqueued, partChecksums, collector, maxMultipartParts, created, subscriber, io, validation, cache, mse>>

(* the updater after a PUT that succeeded *)
RecordPart(u, r) ==
    LET run == u.runs[r]
        existing == run.existing \cup {run.i + 1}
    IN [u EXCEPT !.runs[r].existing = existing,
                 !.stored = @ \cup {run.i},
                 !.session.uploadedChunks = @ \cup {run.i},
                 !.session.hasParts = TRUE,
                 !.session.uploadedParts = SortedParts(existing)]

(* the fetch of the PUT settles with the store's answer *)
PutReturns(r, ok) ==
    /\ uploader.runs[r].pc = "put"
    /\ LET run == uploader.runs[r] IN
       uploader' =
          IF ok THEN LoopFrom(RecordPart(uploader, r), r, run.i + 1)
          ELSE IF run.retries = 1 THEN ErrorEnd(uploader, r)
          ELSE [uploader EXCEPT !.runs[r].pc = "sleep", !.runs[r].retries = @ - 1]
    /\ UNCHANGED <<videos, objects, uploads, videoQueue, worker, tmpFiles, segments, reqs, enqueued, partChecksums, collector, maxMultipartParts, created, subscriber, io, validation, cache, mse>>

(* the backoff timer fires: the PUT is fetched again *)
BackoffDone(r) ==
    /\ uploader.runs[r].pc = "sleep"
    /\ uploader' = FetchPut(uploader, r)
    /\ UNCHANGED <<videos, objects, uploads, videoQueue, worker, tmpFiles, segments, reqs, enqueued, partChecksums, collector, maxMultipartParts, created, subscriber, io, validation, cache, mse>>

(* PATCH part-checksums returns: uploadFile only warns on failure,
   processResume sets the status error and returns *)
PatchReturns(r, ok) ==
    /\ uploader.runs[r].pc = "patch"
    /\ uploader' =
          IF ok \/ uploader.runs[r].kind = "upload"
          THEN SendComplete(uploader, r)
          ELSE [RunGone(uploader, r) EXCEPT !.session.status = "error"]
    /\ UNCHANGED <<videos, objects, uploads, videoQueue, worker, tmpFiles, segments, reqs, enqueued, partChecksums, collector, maxMultipartParts, created, subscriber, io, validation, cache, mse>>

CompleteReturns(r, ok) ==
    /\ uploader.runs[r].pc = "complete"
    /\ uploader' =
          IF ok
          THEN [RunGone(uploader, r) EXCEPT
                  !.session.status = "complete",
                  !.controller = IF uploader.runs[r].kind = "upload" THEN 0 ELSE @]
          ELSE ErrorEnd(uploader, r)
    /\ UNCHANGED <<videos, objects, uploads, videoQueue, worker, tmpFiles, segments, reqs, enqueued, partChecksums, collector, maxMultipartParts, created, subscriber, io, validation, cache, mse>>

(* abort() rejects the fetches in flight under the signal before any later
   task runs: the calls of the runs 1..r that wait for such a PUT end *)
RECURSIVE AbortInFlight(_, _)
AbortInFlight(u, r) ==
    IF r = 0 THEN u
    ELSE LET v == AbortInFlight(u, r - 1)
         IN IF v.runs[r].pc = "put" /\ v.runs[r].ctl \in v.aborted
            THEN AbortEnd(v, r) ELSE v

(* the Pause button, shown while the status is uploading *)
PauseUpload ==
    /\ uploader.session.status = "uploading"
    /\ uploader' = AbortInFlight([uploader EXCEPT
          !.paused = TRUE,
          !.aborted = IF uploader.controller # 0 THEN @ \cup {uploader.controller} ELSE @,
          !.controller = 0,
          !.session.status = "paused"], MaxRuns)
    /\ UNCHANGED <<videos, objects, uploads, videoQueue, worker, tmpFiles, segments, reqs, enqueued, partChecksums, collector, maxMultipartParts, created, subscriber, io, validation, cache, mse>>

(* the Resume button (status paused) and the Retry button (status error)
   with the file still in memory; expired is urlsExpired. A session without
   a type starts uploadFile again under the same id *)
ResumeUpload(r, expired) ==
    /\ uploader.session.status \in {"paused", "error"}
    /\ uploader.runs[r] = NoRun
    /\ uploader.made + 2 <= MaxControllers
    /\ LET u == [uploader EXCEPT !.paused = FALSE,
                                 !.controller = uploader.made + 1,
                                 !.made = @ + 1,
                                 !.session.status = "uploading",
                                 !.runs[r] = [NoRun EXCEPT !.kind = "resume"]]
       IN uploader' =
            IF uploader.session.type = "multipart"
            THEN IF expired THEN [u EXCEPT !.runs[r].pc = "refresh"]
                 ELSE StartChunked(u, r)
            ELSE [u EXCEPT !.controller = u.made + 1,
                           !.made = @ + 1,
                           !.session = InitialSession,
                           !.runs[r] = [NoRun EXCEPT !.kind = "upload", !.pc = "init"]]
    /\ UNCHANGED <<videos, objects, uploads, videoQueue, worker, tmpFiles, segments, reqs, enqueued, partChecksums, collector, maxMultipartParts, created, subscriber, io, validation, cache, mse>>

(* POST refresh-urls returns *)
RefreshReturns(r, ok) ==
    /\ uploader.runs[r].pc = "refresh"
    /\ uploader' = IF ok THEN StartChunked(uploader, r) ELSE ErrorEnd(uploader, r)
    /\ UNCHANGED <<videos, objects, uploads, videoQueue, worker, tmpFiles, segments, reqs, enqueued, partChecksums, collector, maxMultipartParts, created, subscriber, io, validation, cache, mse>>

NextUploader ==
    \/ \E r \in RunIds : UploadFile(r)
    \/ \E r \in RunIds, ok \in BOOLEAN : InitReturns(r, ok)
    \/ \E r \in RunIds : ChunkHashed(r)
    \/ \E r \in RunIds, ok \in BOOLEAN : PutReturns(r, ok)
    \/ \E r \in RunIds : BackoffDone(r)
    \/ \E r \in RunIds, ok \in BOOLEAN : PatchReturns(r, ok)
    \/ \E r \in RunIds, ok \in BOOLEAN : CompleteReturns(r, ok)
    \/ PauseUpload
    \/ \E r \in RunIds, expired \in BOOLEAN : ResumeUpload(r, expired)
    \/ \E r \in RunIds, ok \in BOOLEAN : RefreshReturns(r, ok)

SpecUploader == InitDefault /\ [][NextUploader]_vars

(* ---- the segment cache of the client (app/lib/cache-db.ts) ---- *)

RECURSIVE SumSizes(_, _)
SumSizes(store, keys) ==
    IF keys = {} THEN 0
    ELSE LET k == CHOOSE x \in keys : TRUE
         IN (IF store[k].present THEN store[k].size ELSE 0) + SumSizes(store, keys \ {k})

(* getCacheSize: getAll and the sum of the sizes *)
CacheSize(store) == SumSizes(store, SegKeys)

(* the cursor of the index "timestamp": the row with the least timestamp,
   among equals the least key *)
KeyOrder == [k \in SegKeys |-> CHOOSE n \in 1..3 : <<"k1", "k2", "k3">>[n] = k]

Oldest(store) ==
    CHOOSE k \in SegKeys :
        /\ store[k].present
        /\ \A j \in SegKeys :
             store[j].present =>
                \/ store[k].timestamp < store[j].timestamp
                \/ store[k].timestamp = store[j].timestamp /\ KeyOrder[k] <= KeyOrder[j]

(* the while loop of evictOldestSegments inside its transaction *)
RECURSIVE EvictLoop(_, _, _)
EvictLoop(store, removedBytes, bytesToRemove) ==
    IF (\E k \in SegKeys : store[k].present) /\ removedBytes < bytesToRemove
    THEN LET k == Oldest(store)
         IN EvictLoop([store EXCEPT ![k] = NoSegment],
                      removedBytes + store[k].size, bytesToRemove)
    ELSE store

CallGone(c) == [cache EXCEPT !.calls[c] = NoCall]

(* cacheSegment(segment) is called; the caller stamps the segment with
   Date.now() *)
CacheSegment(c, k, size) ==
    /\ cache.calls[c] = NoCall
    /\ cache.now < MaxClock
    /\ cache' = [cache EXCEPT
          !.now = @ + 1,
          !.calls[c] = [NoCall EXCEPT !.op = "cache", !.pc = "size", !.key = k,
                           !.segment = [present |-> TRUE, size |-> size,
                                        timestamp |-> cache.now]]]
    /\ UNCHANGED <<videos, objects, uploads, videoQueue, worker, tmpFiles, segments, reqs, enqueued, partChecksums, collector, maxMultipartParts, created, subscriber, io, validation, uploader, mse>>

(* evictIfNecessary: getCacheSize and the comparison with the limit *)
EvictIfNecessary(c) ==
    /\ cache.calls[c].pc = "size"
    /\ LET currentSize == CacheSize(cache.store)
           newItemSize == cache.calls[c].segment.size
           maxSize == MAX_CACHE_SIZE_MB
       IN cache' = IF currentSize + newItemSize > maxSize
                   THEN [cache EXCEPT !.calls[c].pc = "evict",
                                      !.calls[c].bytesToRemove = currentSize + newItemSize - maxSize]
                   ELSE [cache EXCEPT !.calls[c].pc = "put"]
    /\ UNCHANGED <<videos, objects, uploads, videoQueue, worker, tmpFiles, segments, reqs, enqueued, partChecksums, collector, maxMultipartParts, created, subscriber, io, validation, uploader, mse>>

(* evictOldestSegments: one readwrite transaction *)
EvictOldestSegments(c) ==
    /\ cache.calls[c].pc = "evict"
    /\ cache' = [cache EXCEPT
          !.store = EvictLoop(@, 0, cache.calls[c].bytesToRemove),
          !.calls[c].pc = "put"]
    /\ UNCHANGED <<videos, objects, uploads, videoQueue, worker, tmpFiles, segments, reqs, enqueued, partChecksums, collector, maxMultipartParts, created, subscriber, io, validation, uploader, mse>>

(* db.put(SEGMENT_STORE, segment) of cacheSegment *)
PutSegment(c) ==
    /\ cache.calls[c].pc = "put"
    /\ cache' = [CallGone(c) EXCEPT !.store[cache.calls[c].key] = cache.calls[c].segment]
    /\ UNCHANGED <<videos, objects, uploads, videoQueue, worker, tmpFiles, segments, reqs, enqueued, partChecksums, collector, maxMultipartParts, created, subscriber, io, validation, uploader, mse>>

(* getSegment(key) is called *)
GetSegment(c, k) ==
    /\ cache.calls[c] = NoCall
    /\ cache' = [cache EXCEPT !.calls[c] = [NoCall EXCEPT !.op = "get", !.pc = "get", !.key = k]]
    /\ UNCHANGED <<videos, objects, uploads, videoQueue, worker, tmpFiles, segments, reqs, enqueued, partChecksums, collector, maxMultipartParts, created, subscriber, io, validation, uploader, mse>>

(* db.get returns: a row found is stamped with Date.now() *)
GetRead(c) ==
    /\ cache.calls[c].pc = "get"
    /\ LET segment == cache.store[cache.calls[c].key] IN
       IF segment.present
       THEN /\ cache.now < MaxClock
            /\ cache' = [cache EXCEPT
                  !.now = @ + 1,
                  !.calls[c].pc = "touch",
                  !.calls[c].segment = [segment EXCEPT !.timestamp = cache.now]]
       ELSE cache' = CallGone(c)
    /\ UNCHANGED <<videos, objects, uploads, videoQueue, worker, tmpFiles, segments, reqs, enqueued, partChecksums, collector, maxMultipartParts, created, subscriber, io, validation, uploader, mse>>

(* db.put(SEGMENT_STORE, segment) of getSegment *)
GetTouch(c) ==
    /\ cache.calls[c].pc = "touch"
    /\ cache' = [CallGone(c) EXCEPT !.store[cache.calls[c].key] = cache.calls[c].segment]
    /\ UNCHANGED <<videos, objects, uploads, videoQueue, worker, tmpFiles, segments, reqs, enqueued, partChecksums, collector, maxMultipartParts, created, subscriber, io, validation, uploader, mse>>

NextCache ==
    \/ \E c \in CallIds, k \in SegKeys, size \in SegSizes : CacheSegment(c, k, size)
    \/ \E c \in CallIds : EvictIfNecessary(c)
    \/ \E c \in CallIds : EvictOldestSegments(c)
    \/ \E c \in CallIds : PutSegment(c)
    \/ \E c \in CallIds, k \in SegKeys : GetSegment(c, k)
    \/ \E c \in CallIds : GetRead(c)
    \/ \E c \in CallIds : GetTouch(c)

SpecCache == InitDefault /\ [][NextCache]_vars

(* ---- the MSE controller of the client (app/lib/mse-controller.ts) ---- *)

(* handleQuotaExceeded: nothing while the buffer is updating or when
   removeEnd is 0; else sourceBuffer.remove and the segments that end before
   removeEnd, those below index below, leave bufferedSegments *)
HandleQuotaExceeded(m, removeEnd, below) ==
    IF m.updating \/ ~removeEnd THEN m
    ELSE [m EXCEPT !.updating = TRUE,
                   !.bufferedSegments = {i \in @ : i >= below}]

(* sourceBuffer.appendBuffer(data) inside its try: quota is the call
   throwing QuotaExceededError, after which the data goes to the given end of
   the queue *)
SourceAppend(m, data, quota, removeEnd, below, front) ==
    IF quota
    THEN LET h == HandleQuotaExceeded(m, removeEnd, below)
         IN [h EXCEPT !.queue = IF front THEN <<data>> \o @ ELSE Append(@, data)]
    ELSE [m EXCEPT !.updating = TRUE, !.isAppending = TRUE,
                   !.appends = @ + 1, !.last = data]

(* appendBuffer(data) *)
AppendBuffer(m, data, quota, removeEnd, below) ==
    IF m.initialized /\ ~m.updating /\ m.queue = <<>>
    THEN SourceAppend(m, data, quota, removeEnd, below, FALSE)
    ELSE [m EXCEPT !.queue = Append(@, data)]

(* segmentFetcher.fetchSegment(url, quality) is started in slot f *)
StartFetch(m, f, index) ==
    [m EXCEPT !.fetches[f] = [quality |-> m.currentQuality, index |-> index],
              !.loads = @ + 1]

CanFetch(f) == mse.fetches[f] = NoData /\ mse.loads < MaxLoads

(* sourceopen: the source buffer is created and the init segment requested *)
OnSourceOpen(f) ==
    /\ ~mse.initialized
    /\ CanFetch(f)
    /\ mse' = StartFetch([mse EXCEPT !.initialized = TRUE], f, -1)
    /\ UNCHANGED <<videos, objects, uploads, videoQueue, worker, tmpFiles, segments, reqs, enqueued, partChecksums, collector, maxMultipartParts, created, subscriber, io, validation, uploader, cache>>

(* loadSegment(index) up to its await *)
LoadSegment(f, index) ==
    /\ index \notin mse.bufferedSegments
    /\ CanFetch(f)
    /\ mse' = StartFetch([mse EXCEPT !.bufferedSegments = @ \cup {index}], f, index)
    /\ UNCHANGED <<videos, objects, uploads, videoQueue, worker, tmpFiles, segments, reqs, enqueued, partChecksums, collector, maxMultipartParts, created, subscriber, io, validation, uploader, cache>>

(* the fetch of loadSegment or loadInitSegment settles: the data is handed
   to appendBuffer; a failed segment leaves bufferedSegments *)
FetchReturns(f, ok, quota, removeEnd, below) ==
    /\ mse.fetches[f] # NoData
    /\ LET data == mse.fetches[f]
           m == [mse EXCEPT !.fetches[f] = NoData]
       IN mse' = IF ok
                 THEN AppendBuffer(m, data, quota, removeEnd, below)
                 ELSE IF data.index >= 0
                      THEN [m EXCEPT !.bufferedSegments = @ \ {data.index}]
                      ELSE m
    /\ UNCHANGED <<videos, objects, uploads, videoQueue, worker, tmpFiles, segments, reqs, enqueued, partChecksums, collector, maxMultipartParts, created, subscriber, io, validation, uploader, cache>>

(* updateend of the source buffer, and onUpdateEnd *)
OnUpdateEnd(quota, removeEnd, below) ==
    /\ mse.updating
    /\ LET m == [mse EXCEPT !.updating = FALSE, !.isAppending = FALSE]
       IN mse' = IF m.queue # <<>>
                 THEN SourceAppend([m EXCEPT !.queue = Tail(@)], Head(m.queue),
                                   quota, removeEnd, below, TRUE)
                 ELSE m
    /\ UNCHANGED <<videos, objects, uploads, videoQueue, worker, tmpFiles, segments, reqs, enqueued, partChecksums, collector, maxMultipartParts, created, subscriber, io, validation, uploader, cache>>

(* switchQuality(qualityName) up to the await of its loadInitSegment;
   hasBuffered is sourceBuffer.buffered.length > 0 *)
SwitchQuality(f, qualityName, hasBuffered) ==
    /\ qualityName # mse.currentQuality
    /\ CanFetch(f)
    /\ mse' = StartFetch([mse EXCEPT
          !.bufferedSegments = {},
          !.queue = <<>>,
          !.updating = IF mse.initialized /\ ~mse.updating /\ hasBuffered THEN TRUE ELSE @,
          !.currentQuality = qualityName], f, -1)
    /\ UNCHANGED <<videos, objects, uploads, videoQueue, worker, tmpFiles, segments, reqs, enqueued, partChecksums, collector, maxMultipartParts, created, subscriber, io, validation, uploader, cache>>

QuotaInputs ==
    {<<FALSE, FALSE, 0>>} \cup {<<TRUE, FALSE, 0>>}
        \cup {<<TRUE, TRUE, below>> : below \in 0..ManifestSegments}

NextMse ==
    \/ \E f \in FetchIds : OnSourceOpen(f)
    \/ \E f \in FetchIds, index \in SegmentIndexes : LoadSegment(f, index)
    \/ \E f \in FetchIds, ok \in BOOLEAN, q \in QuotaInputs :
         FetchReturns(f, ok, q[1], q[2], q[3])
    \/ \E q \in QuotaInputs : OnUpdateEnd(q[1], q[2], q[3])
    \/ \E f \in FetchIds, qualityName \in Qualities, hasBuffered \in BOOLEAN :
         SwitchQuality(f, qualityName, hasBuffered)

SpecMse == InitDefault /\ [][NextMse]_vars

(* ---- properties ---- *)

IsDone(k) == reqs[k].pc = "done"

(* the requests that have arrived for video v *)
RequestsOn(v) == {k \in ReqIds : reqs[k].pc # "new" /\ reqs[k].vid = v}

(* no job of v has been taken by the worker yet *)
JobsUntouched(v) ==
    /\ worker.vid # v
    /\ videos[v].lastError = NULL /\ videos[v].manifestUrl = NULL
    /\ Len(SelectSeq(videoQueue, LAMBDA j : j.videoId = v /\ j.attemptsMade = 0)) = enqueued[v]

(* C1: under any interleaving of concurrent complete requests, at most one
   transcode job is ever enqueued for a video. *)
C1_AtMostOneEnqueue == \A v \in VideoIds : enqueued[v] <= 1

(* C2: a complete and a concurrent abort (or delete) of the same video end as
   if run one after the other: in both orders the abort (the delete) has the
   last word on the status, so once both have answered 200/any and nothing
   else touched the video, the status is cancelled (deleted). *)
C2_Serialized ==
    \A c, a \in ReqIds :
        ( /\ IsDone(c) /\ IsDone(a)
          /\ reqs[c].kind = "complete" /\ reqs[a].kind \in {"abort", "delete"}
          /\ reqs[a].resp.code = 200
          /\ reqs[c].vid = reqs[a].vid
          /\ RequestsOn(reqs[c].vid) = {c, a}
          /\ JobsUntouched(reqs[c].vid) )
        => videos[reqs[c].vid].status = IF reqs[a].kind = "abort" THEN "cancelled" ELSE "deleted"

(* the edges of the state diagram (and the insert of the row) *)
Edges ==
    {<<"absent", "pending_upload">>,
     <<"pending_upload", "processing">>, <<"pending_upload", "cancelled">>,
     <<"pending_upload", "failed">>, <<"pending_upload", "deleted">>,
     <<"processing", "ready">>, <<"processing", "failed">>, <<"processing", "deleted">>,
     <<"ready", "deleted">>, <<"failed", "deleted">>, <<"cancelled", "deleted">>}

(* C3: every change of a video's status is an edge of the state diagram. *)
C3_OnlyDiagramEdges ==
    [][\A v \in VideoIds :
         videos'[v].status # videos[v].status
            => <<videos[v].status, videos'[v].status>> \in Edges]_vars

(* C4: deleted is terminal: no step changes the status of a deleted video. *)
C4_DeletedIsTerminal ==
    [][\A v \in VideoIds :
         videos[v].status = "deleted" => videos'[v].status = "deleted"]_vars

(* C5: a step of the worker (start, success, failure) leaves the row of a
   video that is not in processing unchanged. *)
C5_LateWorkerNoOp ==
    [][worker' # worker =>
         \A v \in VideoIds :
            videos[v].status # "processing" => videos'[v] = videos[v]]_vars

(* two complete calls j, k in sequence on a video, no other request on it,
   the first answered 200 *)
TwoCompletes(j, k) ==
    /\ j < k /\ IsDone(j) /\ IsDone(k)
    /\ reqs[j].kind = "complete" /\ reqs[k].kind = "complete"
    /\ reqs[j].vid = reqs[k].vid
    /\ RequestsOn(reqs[j].vid) = {j, k}
    /\ reqs[j].resp.code = 200

(* a complete request answered "Invalid upload state" in this step *)
RejectedNow(k) ==
    /\ reqs[k].pc = "new" /\ reqs'[k].pc = "done"
    /\ reqs'[k].kind = "complete"
    /\ reqs'[k].resp.error = "Invalid upload state"

(* C6 as stated: after two complete calls in sequence the first has returned
   status processing, the second 400 with currentStatus processing, and
   exactly one job has been enqueued. *)
C6_SecondSeesProcessing ==
    \A j, k \in ReqIds :
        TwoCompletes(j, k)
        => /\ reqs[j].resp = Ok("processing")
           /\ reqs[k].resp.code = 400
           /\ reqs[k].resp.currentStatus = "processing"
           /\ enqueued[reqs[j].vid] = 1

(* C6, amended: after two complete calls in sequence the first has returned
   status processing, the second 400 "Invalid upload state" with the status
   the video had at that time (processing while the worker has not finished
   the job, else ready or failed), exactly one job has been enqueued, and the
   step that rejects a complete changes neither the tables, the store nor the
   queue. *)
C6_DoubleComplete ==
    /\ [](\A j, k \in ReqIds :
            TwoCompletes(j, k)
            => LET v == reqs[j].vid IN
               /\ reqs[j].resp = Ok("processing")
               /\ reqs[k].resp.code = 400
               /\ reqs[k].resp.error = "Invalid upload state"
               /\ reqs[k].resp.currentStatus \in {"processing", "ready", "failed"}
               /\ enqueued[v] = 1
               /\ JobsUntouched(v) =>
                     /\ reqs[k].resp.currentStatus = "processing"
                     /\ videos[v].status = "processing"
                     /\ videoQueue = <<[videoId |-> v, attemptsMade |-> 0]>>)
    /\ [][\A k \in ReqIds :
            RejectedNow(k)
            => /\ reqs'[k].resp.code = 400
               /\ reqs'[k].resp.currentStatus = videos[reqs'[k].vid].status
               /\ UNCHANGED <<videos, objects, uploads, videoQueue, worker,
                              tmpFiles, segments, enqueued>>]_vars

C6_Witness ==
    \E j, k \in ReqIds :
        /\ TwoCompletes(j, k)
        /\ reqs[k].resp.code = 400
        /\ reqs[k].resp.currentStatus = "ready"

(* C7: the status change to processing and the enqueue take effect together
   or not at all: once no request on the video is in flight, a video in
   processing has had a job enqueued. *)
C7_NoProcessingWithoutJob ==
    \A v \in VideoIds :
        (videos[v].status = "processing" /\ \A k \in RequestsOn(v) : IsDone(k))
            => enqueued[v] >= 1

(* C8: complete sets a video to processing only when its source object is in
   the store with the declared size. *)
C8_ProcessingNeedsSource ==
    [][\A k \in ReqIds :
         (reqs[k].pc = "c_update" /\ reqs'[k].pc = "c_enqueue")
            => /\ objects[reqs[k].vid].present
               /\ objects[reqs[k].vid].size = videos[reqs[k].vid].sourceSize]_vars

(* C9: a multipart complete gets past the checks of the parts list only with
   the part numbers 1..N of the upload, each with an ETag. *)
C9_OnlyAllPartsAccepted ==
    \A k \in ReqIds :
        (reqs[k].pc = "c_s3complete" /\ UseMultipart(videos[reqs[k].vid].sourceSize))
            => /\ reqs[k].parts = [i \in 1..NumParts(videos[reqs[k].vid].sourceSize) |-> i]
               /\ reqs[k].etagsOk

(* C10: when the checksum read at completion differs from the declared one,
   the request goes to the mismatch reply without touching anything, and the
   reply is 400 with the status set to failed, the queue and the source
   object left as they are. *)
C10_ChecksumMismatch ==
    [][\A k \in ReqIds :
         LET v == reqs[k].vid IN
         /\ ( /\ reqs[k].pc = "c_checksum" /\ reqs'[k].pc # "c_checksum"
              /\ objects[v].present
              /\ Sha256Base64(objects[v].content) # videos[v].sourceChecksum )
            => /\ reqs'[k].pc = "c_mismatch"
               /\ UNCHANGED <<videos, objects, videoQueue, enqueued>>
         /\ (reqs[k].pc = "c_mismatch" /\ reqs'[k].pc # "c_mismatch")
            => /\ reqs'[k].pc = "done"
               /\ reqs'[k].resp = Resp(400, "Checksum validation failed", "")
               /\ videos'[v].status = "failed"
               /\ UNCHANGED <<objects, videoQueue, enqueued>>]_vars

C10_Witness ==
    \E k \in ReqIds :
        /\ IsDone(k)
        /\ reqs[k].resp = Resp(400, "Checksum validation failed", "")
        /\ videos[reqs[k].vid].status = "failed"
        /\ objects[reqs[k].vid].present
        /\ enqueued[reqs[k].vid] = 0

(* C11: when the client has sent per-part checksums for a multipart upload
   and the store has finalized the object, complete sets the video to
   processing only if the object holds, in every part's range, the bytes the
   client hashed. *)
C11_PartChecksumsVerified ==
    [][\A k \in ReqIds :
         ( /\ reqs[k].pc = "c_update" /\ reqs'[k].pc = "c_enqueue"
           /\ reqs[k].vid \in partChecksums
           /\ objects[reqs[k].vid].present )
         => objects[reqs[k].vid].content = "A"]_vars

(* C12: a video with status ready has a manifest url, a duration and a
   processed_at. *)
C12_ReadyHasOutputs ==
    \A v \in VideoIds :
        videos[v].status = "ready"
        => /\ videos[v].manifestUrl # NULL
           /\ videos[v].duration # NULL
           /\ videos[v].processedAt # NULL

(* C13: a video with status ready has at least one segment row. *)
C13_ReadyHasSegments ==
    \A v \in VideoIds : videos[v].status = "ready" => segments[v] # {}

(* C14: a video on which DELETE has succeeded is never in the GET /videos
   listing again, whatever a later abort or a late job writes to its status. *)
C14_DeletedNotListed ==
    \A k \in ReqIds :
        (IsDone(k) /\ reqs[k].kind = "delete" /\ reqs[k].resp.code = 200)
        => reqs[k].vid \notin Listing

C14_Witness ==
    \E k \in ReqIds :
        /\ IsDone(k) /\ reqs[k].kind = "delete" /\ reqs[k].resp.code = 200
        /\ videos[reqs[k].vid].status \in {"cancelled", "processing", "ready", "failed"}

(* C15: the step in which abort answers leaves the video cancelled with
   cancelled_at set, no multipart upload of it in progress in the store and no
   source object. *)
C15_AbortLeavesNothing ==
    [][\A k \in ReqIds :
         (reqs[k].pc = "a_update" /\ reqs'[k].pc = "done")
         => LET v == reqs[k].vid IN
            /\ videos'[v].status = "cancelled"
            /\ videos'[v].cancelledAt # NULL
            /\ v \notin ListedUploads'
            /\ ~objects'[v].present]_vars

(* C16: no step of refresh-urls changes the video row, the multipart upload,
   its uploaded parts, the objects, the queue or the segments. *)
C16_RefreshFrame ==
    [][\A k \in ReqIds :
         (reqs'[k].kind = "refresh" /\ reqs'[k] # reqs[k])
         => UNCHANGED <<videos, objects, uploads, videoQueue, worker, tmpFiles,
                        segments, enqueued, partChecksums, collector>>]_vars

C16_Witness ==
    \E k \in ReqIds :
        /\ IsDone(k) /\ reqs[k].kind = "refresh" /\ reqs[k].resp.code = 200
        /\ uploads[reqs[k].vid].state = "active"
        /\ uploads[reqs[k].vid].parts # {}

(* C17: refresh-urls goes on to mint URLs only when it reads the status
   pending_upload; when it reads any other status it answers 400 with that
   status; a reply other than 200 carries no URL, and with one request at a
   time the video is still pending_upload when the URLs are returned, one
   per part. *)
C17_RefreshOnlyPending ==
    /\ [](\A k \in ReqIds :
            (reqs[k].kind = "refresh" /\ reqs[k].resp.code # 200) => reqs[k].resp.urls = 0)
    /\ [][\A k \in ReqIds :
            /\ (reqs[k].pc = "new" /\ reqs'[k].kind = "refresh")
               => LET st == videos[reqs'[k].vid].status IN
                  IF st = "pending_upload" THEN reqs'[k].pc = "r_sign"
                  ELSE /\ reqs'[k].pc = "done"
                       /\ reqs'[k].resp.code = IF st = "absent" THEN 404 ELSE 400
                       /\ st # "absent" => reqs'[k].resp.currentStatus = st
            /\ (reqs[k].pc = "r_sign" /\ reqs'[k].pc = "done")
               => /\ videos[reqs[k].vid].status = "pending_upload"
                  /\ reqs'[k].resp.code = 200
                  /\ reqs'[k].resp.urls = NumParts(videos[reqs[k].vid].sourceSize)]_vars

C17_Witness ==
    \E k \in ReqIds :
        /\ IsDone(k) /\ reqs[k].kind = "refresh"
        /\ reqs[k].resp = Resp(400, "Upload not in progress", "cancelled")

(* C18: a rejected POST /uploads inserts no row and leaves no multipart
   upload initiated: every upload in progress in the store belongs to a row,
   and every row has a size and a number of parts within the limits. *)
C18_RejectedLeavesNothing ==
    \A v \in VideoIds :
        /\ uploads[v].state # "orphan"
        /\ videos[v].status # "absent"
           => /\ videos[v].sourceSize > 0
              /\ videos[v].sourceSize <= MAX_FILE_SIZE
              /\ UseMultipart(videos[v].sourceSize)
                    => NumParts(videos[v].sourceSize) <= maxMultipartParts

(* a run of the cron job returns (its last abort went through) in this step *)
RunReturns ==
    /\ collector.pc = "g_abort" /\ collector'.pc = "idle"
    /\ collector'.last = "ok"

(* C19: when a run of the cron job returns, every upload it aborted is out
   of the store's listing and the owning video, if it was pending_upload, is
   failed with last_error "upload expired". *)
C19_CollectorExpires ==
    [][RunReturns =>
         \A v \in collector.done \cup {NextTodo} :
            /\ v \notin ListedUploads'
            /\ videos[v].status = "pending_upload"
               => /\ videos'[v].status = "failed"
                  /\ videos'[v].lastError = "upload expired"]_vars

(* C20: when a run returns the store lists no abandoned upload, and a run
   started while the store lists none aborts nothing and changes nothing: a
   second run in a row is a no-op. *)
C20_CollectorIdempotent ==
    [][/\ RunReturns => Abandoned(ListedUploads)' = {}
       /\ (collector.pc = "idle" /\ Abandoned(ListedUploads) = {})
             => collector' = collector]_vars

C20_Witness ==
    \E v \in VideoIds :
        /\ collector.pc = "idle" /\ collector.last = "ok"
        /\ uploads[v].state = "aborted"
        /\ videos[v].status = "pending_upload"

(* C21: when the abort of a listed upload fails because the upload was
   completed or aborted after the listing, the run skips it: it goes on with
   the rest of its list and does not end in an error. *)
C21_CollectorSkipsGone ==
    [][(/\ collector.pc = "g_abort"
        /\ NextTodo \notin ListedUploads
        /\ collector' # collector)
         => /\ collector'.last # "error"
            /\ collector'.todo = collector.todo \ {NextTodo}]_vars

(* C26: a DELETE /videos/:id that found the video has soft-deleted it once it
   has answered (deleted_at is set), whether the purge of the source object
   worked or not. *)
C26_DeleteAlwaysSoftDeletes ==
    \A k \in ReqIds :
        (IsDone(k) /\ reqs[k].kind = "delete" /\ reqs[k].resp.code # 404)
            => videos[reqs[k].vid].deletedAt # NULL

(* C30: every step of complete that sets a video to failed (the provider
   refused CompleteMultipartUpload, the checksum did not match, the object
   could not be read) leaves last_error non-null. *)
C30_CompleteFailureSetsLastError ==
    [][\A k \in ReqIds :
          (/\ reqs[k].pc \in {"c_s3failed", "c_mismatch", "c_checkerror"}
           /\ reqs'[k].pc = "done"
           /\ videos'[reqs[k].vid].status = "failed")
             => videos'[reqs[k].vid].lastError # NULL]_vars

(* C27: no step changes the source_url of a video that exists: the value
   written when the row is inserted is the value every later read sees. *)
C27_SourceUrlImmutable ==
    [][\A v \in VideoIds :
          videos[v].status # "absent"
             => videos'[v].sourceUrl = videos[v].sourceUrl]_vars

C27_Witness ==
    \E v \in VideoIds :
        /\ videos[v].status = "ready"
        /\ videos[v].manifestUrl # NULL
        /\ videos[v].sourceUrl = SourceUrl

(* C22: when the server handles a bus message about video V, the event is
   queued on exactly the connected sockets that are in room video:V at that
   moment; a socket that left the room, disconnected, or joined only other
   rooms gets nothing. *)
C22_RelayExactlySubscribers ==
    [][(subscriber.inflight # <<>> /\ subscriber'.inflight = Tail(subscriber.inflight))
         => LET e == Head(subscriber.inflight)
            IN \A s \in Sockets :
                 io'[s].outbox = IF io[s].connected /\ e.videoId \in io[s].rooms
                                 THEN Append(io[s].outbox, e)
                                 ELSE io[s].outbox]_vars

C22_Witness ==
    \E s, t \in Sockets :
        /\ s # t
        /\ subscriber.sent >= 1 /\ subscriber.inflight = <<>>
        /\ io[s].outbox # <<>> /\ \A i \in DOMAIN io[s].outbox : io[s].outbox[i].videoId \in io[s].rooms
        /\ io[t].connected /\ io[t].rooms = RoomIds \ VideoIds
        /\ io[t].outbox = <<>> /\ io[t].lastSeq = 0

(* C23: a subscriber reads the events of its rooms in the order they were
   published: every event it reads was published after the one it read
   before, none published earlier is still waiting behind it, and with
   something queued for it the read can be taken whatever the other
   sockets have or have not read. *)
C23_PerSubscriberFifo ==
    /\ [](\A s \in Sockets : io[s].outbox # <<>> => ENABLED ClientRead(s))
    /\ [][\A s \in Sockets :
            io'[s].lastSeq # io[s].lastSeq
               => /\ io'[s].lastSeq > io[s].lastSeq
                  /\ \A i \in DOMAIN io'[s].outbox : io'[s].outbox[i].seq > io'[s].lastSeq]_vars

C23_Witness ==
    \E s, t \in Sockets :
        /\ s # t
        /\ io[s].lastSeq = MaxEvents /\ io[s].outbox = <<>>
        /\ io[t].lastSeq = 0 /\ Len(io[t].outbox) = MaxEvents

(* C24: the events queued for a subscriber that does not read never number
   more than the bound of the slow-consumer queue. *)
C24_SlowConsumerBounded ==
    \A s \in Sockets : Len(io[s].outbox) <= MaxBuffered

(* C25: a failed attempt that the queue will run again leaves the video in
   processing and publishes nothing: failed is written and published only
   by the attempt that exhausts the retry budget. *)
C25_FailedOnlyAfterRetries ==
    [][(/\ worker.pc = "w_catch" /\ worker'.pc = "idle"
        /\ worker.attemptsMade + 1 < QUEUE_ATTEMPTS)
         => /\ videos'[worker.vid].status = "processing"
            /\ subscriber'.sent = subscriber.sent]_vars

(* C28: an accepted POST /uploads answers single exactly when the declared
   size is at most MULTIPART_THRESHOLD and multipart exactly when it is
   greater, and opens a multipart upload in the store only in the second
   case. *)
C28_ThresholdSelection ==
    \A v \in VideoIds :
        videos[v].status # "absent"
          => /\ created.code = 200
             /\ created.type = "single" <=> videos[v].sourceSize <= MULTIPART_THRESHOLD
             /\ created.type = "multipart" <=> videos[v].sourceSize > MULTIPART_THRESHOLD
             /\ uploads[v].state = "active" <=> videos[v].sourceSize > MULTIPART_THRESHOLD

C28_Witness ==
    \E v \in VideoIds :
        /\ videos[v].sourceSize = MULTIPART_THRESHOLD
        /\ created.type = "single" /\ uploads[v].state = "none"

(* n is the least number of parts of MULTIPART_CHUNK_SIZE that hold size *)
IsCeil(n, size) ==
    /\ n * MULTIPART_CHUNK_SIZE >= size
    /\ (n - 1) * MULTIPART_CHUNK_SIZE < size

(* C29: a multipart reply of POST /uploads and every reply of refresh-urls
   carry ceil(size / part size) URLs, one per part; a request is accepted
   only with at most MAX_MULTIPART_PARTS parts and rejected with 400 "too
   many parts" only with more. *)
C29_PartCount ==
    /\ \A v \in VideoIds :
          (videos[v].status # "absent" /\ created.type = "multipart")
             => /\ IsCeil(created.numParts, videos[v].sourceSize)
                /\ created.partUrls = created.numParts
                /\ created.numParts <= maxMultipartParts
    /\ created.error = "File requires too many parts"
          => created.code = 400 /\ created.numParts > maxMultipartParts
    /\ \A k \in ReqIds :
          (IsDone(k) /\ reqs[k].kind = "refresh" /\ reqs[k].resp.code = 200)
             => IsCeil(reqs[k].resp.urls, videos[reqs[k].vid].sourceSize)

C29_Witness ==
    /\ created.code = 200 /\ created.type = "multipart"
    /\ created.numParts = maxMultipartParts
    /\ \E k \in ReqIds :
          /\ IsDone(k) /\ reqs[k].kind = "refresh"
          /\ reqs[k].resp.urls = maxMultipartParts

(* C31: the segment rows of a successful transcode are accepted by the
   table: whatever the number of applicable qualities and of segments, and
   whatever earlier attempts of the job have inserted, the insert goes on to
   the final update. *)
C31_SegmentKeysDistinct ==
    [][\A nq \in 1..NumQualities, nseg \in 0..MaxSegments :
          WorkerInsert(TRUE, nq, nseg) => worker'.pc = "w_update"]_vars

(* the entry at position j of the expected parts failed: its range, as the
   claim states it, could not be read or does not hash to its checksum *)
PartFails(j) ==
    LET part == validation.expected[j]
        first == (part.partNumber - 1) * ValPartSize
        last == (part.partNumber - 1) * ValPartSize + part.size - 1
    IN \/ ~validation.storeOk[j]
       \/ last >= Len(validation.object)
       \/ Sha256Bytes([k \in 1..(last - first + 1) |-> validation.object[first + k]])
            # part.checksum

(* C32: when validateS3PartChecksums has returned, valid is true exactly when
   no expected part failed, and failures names the failed parts by their
   part numbers, one entry each. *)
C32_PartValidation ==
    validation.pc = "done"
      => LET n == Len(validation.expected)
             failed == {j \in 1..n : PartFails(j)}
         IN /\ validation.valid <=> failed = {}
            /\ Len(validation.failures) = Cardinality(failed)
            /\ {validation.failures[i] : i \in DOMAIN validation.failures}
                 = {validation.expected[j].partNumber : j \in failed}

C32_Witness ==
    /\ validation.pc = "done"
    /\ ~validation.valid
    /\ \E j, k, m \in DOMAIN validation.results :
          /\ validation.results[j].error = "Checksum mismatch"
          /\ validation.results[k].error = "read failed"
          /\ validation.results[m].success
          /\ validation.expected[j].partNumber # j

(* C33: never more than CONCURRENCY ranged reads are in flight, no part is
   read twice, and when the function returns every expected part has been
   read and judged once. *)
C33_BoundedParallelism ==
    /\ Cardinality(validation.inflight) <= CONCURRENCY
    /\ \A j \in DOMAIN validation.reads : validation.reads[j] <= 1
    /\ validation.pc = "done"
         => \A j \in DOMAIN validation.expected :
               /\ validation.reads[j] = 1
               /\ validation.results[j] # NoResult

C33_Witness ==
    /\ validation.pc = "done"
    /\ Len(validation.expected) > CONCURRENCY

(* C34: with every started handler running to its reply and the worker
   taking every queued job and finishing every attempt, a video that is
   processing is ready, failed or deleted at some later time. *)
C34_ProcessingEnds ==
    \A v \in VideoIds :
        (videos[v].status = "processing")
            ~> (videos[v].status \in {"ready", "failed", "deleted"})

(* C35: a message that is not JSON is dropped and nothing else: the step
   that handles it leaves the subscription up, the sockets and the requests
   as they were; later messages are still handled (a message in flight can
   always be handled) and a well-formed one is queued on the sockets of its
   room. *)
C35_MalformedDropped ==
    /\ [](subscriber.inflight # <<>> => ENABLED OnMessage)
    /\ [][(subscriber.inflight # <<>> /\ subscriber'.inflight = Tail(subscriber.inflight))
            => LET msg == Head(subscriber.inflight)
               IN /\ subscriber'.up
                  /\ ~msg.json => (io' = io /\ reqs' = reqs /\ videos' = videos)
                  /\ (msg.json /\ subscriber.dropped > 0)
                       => \A s \in Sockets :
                            (io[s].connected /\ msg.videoId \in io[s].rooms)
                               => /\ io'[s].outbox # <<>>
                                  /\ io'[s].outbox[Len(io'[s].outbox)] = msg]_vars

C35_Witness ==
    \E s \in Sockets :
        /\ subscriber.up /\ subscriber.dropped > 0
        /\ io[s].outbox # <<>>
        /\ Head(io[s].outbox).seq > 1

(* C36: refresh-urls, complete and abort act only on the multipart upload
   opened for the video at creation: a request whose multipartUploadId is
   not that upload's id ends with an error reply and changes no multipart
   upload. *)
C36_OnlyOwnUpload ==
    [][\A k \in ReqIds :
         (/\ reqs[k].kind \in {"refresh", "complete", "abort"}
          /\ reqs[k].mpId \notin {0, reqs[k].vid}
          /\ reqs[k].pc # "done"
          /\ reqs'[k].pc = "done")
            => (reqs'[k].resp.code >= 400 /\ uploads' = uploads)]_vars

(* C37: every POST /complete of the uploader is sent when the store holds
   all the parts and carries the part numbers 1..TotalChunks once each in
   order, whatever pauses, resumes and retries came before; and no PUT is
   started for a chunk the session records as uploaded. *)
C37_CompleteOnlyWhenAllUploaded ==
    /\ [](\A j \in 1..Len(uploader.completes) :
            /\ uploader.completes[j].multipart
            /\ uploader.completes[j].parts = [n \in 1..TotalChunks |-> n])
    /\ [][\A r \in RunIds :
            (uploader.runs[r].pc = "prep" /\ uploader'.runs[r].pc = "put")
               => uploader.runs[r].i \notin uploader.session.uploadedChunks]_vars

(* C38: whatever cacheSegment and getSegment calls have run or are between
   their awaits, the sizes of the stored segments add up to at most
   MAX_CACHE_SIZE_MB, and a step that evicts removes only segments whose
   timestamp is at most that of every segment it leaves. *)
C38_CacheBounded ==
    /\ [](CacheSize(cache.store) <= MAX_CACHE_SIZE_MB)
    /\ [][\A c \in CallIds :
            (cache.calls[c].pc = "evict" /\ cache'.calls[c].pc = "put")
               => \A k, j \in SegKeys :
                    (cache.store[k].present /\ ~cache'.store[k].present
                       /\ cache'.store[j].present)
                      => cache.store[k].timestamp <= cache.store[j].timestamp]_vars

(* C39: every call of sourceBuffer.appendBuffer hands over a buffer of the
   current quality (a media segment fetched before a switch is not appended
   after it), is made while the source buffer is not updating, and takes the
   head of the queue when the queue is not empty. *)
C39_AppendsCurrentQualityInOrder ==
    [][(mse'.appends # mse.appends)
          => /\ mse'.last.index >= 0 => mse'.last.quality = mse'.currentQuality
             /\ mse'.appends = mse.appends + 1
             /\ mse.queue # <<>> => (mse'.last = Head(mse.queue) /\ mse'.queue = Tail(mse.queue))]_vars

====
